---------------------------- MODULE Spec2Model ----------------------------
(***************************************************************************)
(* A model of the EQ assessment core (src/assessment/eq_model.py) and of   *)
(* the three views that drive it (src/assessment/views.py).                *)
(*                                                                         *)
(* Spec is one browser session served by the three views.  SpecValidate,   *)
(* SpecAnalyze, SpecScores, SpecInterpret and SpecScenario each apply one  *)
(* function of the core to inputs drawn from a bounded set.                *)
(*                                                                         *)
(* Scores are Python floats in the source.  Here they are rationals, a     *)
(* pair <<n, d>> with d > 0 in lowest terms.  RAdd, RSub, RMul and RDiv    *)
(* are exact, the idealisation under which the formulas of the heuristic   *)
(* are checked.  FAdd, FSub, FMul and FDiv round to a binary floating      *)
(* point of a few significant bits, to nearest, ties to even, as the       *)
(* doubles of the source do with 53 bits; calculate_eq_scores_rounded is   *)
(* calculate_eq_scores in that arithmetic (SpecRounded).                   *)
(***************************************************************************)
EXTENDS Integers, Sequences, FiniteSets

VARIABLES
    pc,             \* "input" or "done" around one call of a function of the
                    \* core; "serving" while the views serve a session
    session,        \* request.session, the server-side session dict
    http_response,  \* what the last request was answered with
    invoked,        \* the methods of eq_model the last request called
    classifiers,    \* what the two pipelines do at each call of the last request
    assessed,       \* history: the last assessment whose scores the session
                    \* was given, with the demographics and scenario it was for
    analyses,       \* calculate_eq_scores: the list of feature records
    demographics,   \* calculate_eq_scores: the demographics dict
    scores,         \* calculate_eq_scores: the returned (category_scores, overall)
    locals,         \* calculate_eq_scores: its local variables at the return
    responses,      \* validate_responses: the batch of response texts
    validation,     \* validate_responses: the returned (is_valid, error_message)
    overall_score,  \* interpret_overall_eq: the score given
    eq_level,       \* interpret_overall_eq: the level returned
    sentiment_out,  \* analyze_single_response: what sentiment_pipeline(text) does
    emotion_out,    \* analyze_single_response: what emotion_pipeline(text) does
    analysis,       \* analyze_single_response: the returned record, or the exception
    scenario_text   \* generate_scenario: the text returned
\* While the views serve a session, responses, validation, analyses,
\* demographics, scores, overall_score and eq_level are the local variables
\* of those names in the last call of response_view.

----------------------------------------------------------------------------
(* The arithmetic standing for the float arithmetic of the source.         *)

RECURSIVE GCD(_, _)
GCD(a, b) == IF b = 0 THEN a ELSE GCD(b, a % b)

Abs(x) == IF x < 0 THEN -x ELSE x

\* The value of a division by zero: where Python raises ZeroDivisionError.
\* Every operation on it yields it again, so it reaches the caller.
ZeroDivisionError == <<0, 0>>

Rat(n, d) ==
    IF d = 0 THEN ZeroDivisionError
    ELSE LET g == GCD(Abs(n), Abs(d))
             s == IF d < 0 THEN -1 ELSE 1
         IN  <<(s * n) \div g, (s * d) \div g>>

FromInt(i) == <<i, 1>>

Zero == FromInt(0)

RAdd(p, q) == Rat(p[1] * q[2] + q[1] * p[2], p[2] * q[2])

RSub(p, q) == Rat(p[1] * q[2] - q[1] * p[2], p[2] * q[2])

RMul(p, q) == Rat(p[1] * q[1], p[2] * q[2])

\* p / q; q = 0 raises
RDiv(p, q) == Rat(p[1] * q[2], p[2] * q[1])

RLess(p, q) == p[1] * q[2] < q[1] * p[2]

RLeq(p, q) == p[1] * q[2] <= q[1] * p[2]

\* Python's min(a, b) and max(a, b): the first argument unless the second
\* is strictly smaller (larger).
PyMin(a, b) == IF RLess(b, a) THEN b ELSE a

PyMax(a, b) == IF RLess(a, b) THEN b ELSE a

\* A dict with no keys.
EmptyDict == [k \in {} |-> Zero]

\* dict.get(key, default)
DictGet(dict, key, default) == IF key \in DOMAIN dict THEN dict[key] ELSE default

\* sum(dict.values())
RECURSIVE SumOver(_, _)
SumOver(dict, keys) ==
    IF keys = {} THEN Zero
    ELSE LET k == CHOOSE x \in keys : TRUE
         IN  RAdd(dict[k], SumOver(dict, keys \ {k}))

SumValues(dict) == SumOver(dict, DOMAIN dict)

----------------------------------------------------------------------------
(* validate_responses.  A text is a sequence of one-character strings.     *)

\* The characters str.strip() and str.split() take for whitespace.
Whitespace == {" ", "\t", "\n"}

RECURSIVE lstrip(_)
lstrip(text) ==
    IF text = << >> \/ Head(text) \notin Whitespace THEN text ELSE lstrip(Tail(text))

RECURSIVE rstrip(_)
rstrip(text) ==
    IF text = << >> \/ text[Len(text)] \notin Whitespace THEN text
    ELSE rstrip(SubSeq(text, 1, Len(text) - 1))

\* str.strip()
strip(text) == rstrip(lstrip(text))

\* The length of the first word of a text that starts with none of Whitespace.
RECURSIVE first_word_len(_)
first_word_len(text) ==
    IF text = << >> \/ Head(text) \in Whitespace THEN 0
    ELSE 1 + first_word_len(Tail(text))

\* str.split(): the maximal runs of non-whitespace characters, in order.
RECURSIVE split(_)
split(text) ==
    LET t == lstrip(text)
        n == first_word_len(t)
    IN  IF t = << >> THEN << >>
        ELSE <<SubSeq(t, 1, n)>> \o split(SubSeq(t, n + 1, Len(t)))

\* Line 51
min_words_per_response == 10

\* The error message of a batch that passed: None.
NoError == [kind |-> "none", answer |-> 0, required |-> 0, actual |-> 0]

\* Line 142: "Answer {i + 1} cannot be empty. ..."
EmptyError(i) == [kind |-> "empty", answer |-> i + 1, required |-> 0, actual |-> 0]

\* Lines 149-150: "Answer {i + 1} is too short. Please provide at least
\* {min_words_per_response} words (currently {len(words)} words). ..."
ShortError(i, n) ==
    [kind |-> "short", answer |-> i + 1,
     required |-> min_words_per_response, actual |-> n]

\* The loop body with the word-count test off by one (<= for <).
check_response_inclusive(i, response) ==
    IF Len(response) = 0 \/ Len(strip(response)) = 0
    THEN [ok |-> FALSE, error |-> EmptyError(i)]
    ELSE LET words == split(strip(response))
         IN  IF Len(words) <= min_words_per_response
             THEN [ok |-> FALSE, error |-> ShortError(i, Len(words))]
             ELSE [ok |-> TRUE, error |-> NoError]

\* Lines 140-151: the loop body for the response at 0-based index i; ok when
\* the loop goes on.
check_response(i, response) ==
    IF Len(response) = 0 \/ Len(strip(response)) = 0
    THEN [ok |-> FALSE, error |-> EmptyError(i)]
    ELSE LET words == split(strip(response))
         IN  IF Len(words) < min_words_per_response
             THEN [ok |-> FALSE, error |-> ShortError(i, Len(words))]
             ELSE [ok |-> TRUE, error |-> NoError]

\* Lines 139-153: the loop from 0-based index i on.
RECURSIVE validate_from(_, _)
validate_from(batch, i) ==
    IF i >= Len(batch) THEN [ok |-> TRUE, error |-> NoError]
    ELSE LET r == check_response(i, batch[i + 1])
         IN  IF ~r.ok THEN r ELSE validate_from(batch, i + 1)

\* Lines 129-153
validate_responses(batch) == validate_from(batch, 0)

----------------------------------------------------------------------------
(* analyze_single_response.  What a classifier gives back is a Python      *)
(* value, a pair <<type, content>>:                                        *)
(*   None, a str, a number, a list or a tuple of values, or a dict, kept   *)
(*   as the sequence of its <<key, value>> pairs in insertion order.       *)

PyNone == <<"None", << >>>>

PyStr(str) == <<"str", str>>

PyNum(q) == <<"num", q>>

PyList(items) == <<"list", items>>

PyTuple(items) == <<"tuple", items>>

PyDict(pairs) == <<"dict", pairs>>

\* A call of a classifier: it returns a value or raises.
Returns(value) == [raises |-> FALSE, value |-> value]

Raises == [raises |-> TRUE, value |-> PyNone]

\* key in dict
HasKey(dict, key) == \E i \in 1..Len(dict[2]) : dict[2][i][1] = key

\* dict.get(key, default)
PyGet(dict, key, default) ==
    IF HasKey(dict, key)
    THEN dict[2][CHOOSE i \in 1..Len(dict[2]) : dict[2][i][1] = key][2]
    ELSE default

\* bool(value)
Truthy(value) ==
    CASE value[1] = "None" -> FALSE
      [] value[1] = "str" -> value[2] # ""
      [] value[1] = "num" -> value[2] # Zero
      [] OTHER -> Len(value[2]) > 0

\* str.upper() and str.lower(), on the labels of the model.
Upper(str) ==
    CASE str = "positive" -> "POSITIVE"
      [] str = "pos" -> "POS"
      [] str = "Neg" -> "NEG"
      [] str = "Negative" -> "NEGATIVE"
      [] str = "neutral" -> "NEUTRAL"
      [] str = "label_1" -> "LABEL_1"
      [] OTHER -> str

Lower(str) ==
    CASE str = "Joy" -> "joy"
      [] str = "JOY" -> "joy"
      [] str = "Fear" -> "fear"
      [] str = "LOVE" -> "love"
      [] str = "Sadness" -> "sadness"
      [] OTHER -> str

\* float(value) raises for anything but a number (the strings of the model
\* spell no number).
FloatRaises(value) == value[1] # "num"

\* Lines 169-175: the record the label and the score are read from.
sentiment_result_of(sentiment_result_raw) ==
    IF sentiment_result_raw[1] = "list" /\ Len(sentiment_result_raw[2]) > 0
    THEN sentiment_result_raw[2][1]
    ELSE IF sentiment_result_raw[1] = "dict"
    THEN sentiment_result_raw
    ELSE PyDict(<< <<"label", PyStr("NEUTRAL")>>, <<"score", PyNum(Rat(1, 2))>> >>)

\* Lines 181-186
map_sentiment_label(upper) ==
    IF upper \in {"POSITIVE", "POS"} THEN "POSITIVE"
    ELSE IF upper \in {"NEGATIVE", "NEG"} THEN "NEGATIVE"
    ELSE "NEUTRAL"

\* Lines 166-186: the sentiment part.  It raises when the classifier does
\* (line 166), when the chosen result has no .get (line 177), when the label
\* has no .upper (line 177) and when float() refuses the score (line 178).
analyze_sentiment(out) ==
    LET sentiment_result == sentiment_result_of(out.value)
        label_value == PyGet(sentiment_result, "label", PyStr("NEUTRAL"))
        score_value == PyGet(sentiment_result, "score", PyNum(Rat(1, 2)))
    IN  IF out.raises THEN [raised |-> TRUE, label |-> "NEUTRAL", score |-> Zero]
        ELSE IF sentiment_result[1] # "dict"
        THEN [raised |-> TRUE, label |-> "NEUTRAL", score |-> Zero]
        ELSE IF label_value[1] # "str"
        THEN [raised |-> TRUE, label |-> "NEUTRAL", score |-> Zero]
        ELSE IF FloatRaises(score_value)
        THEN [raised |-> TRUE, label |-> "NEUTRAL", score |-> Zero]
        ELSE [raised |-> FALSE,
              label  |-> map_sentiment_label(Upper(label_value[2])),
              score  |-> score_value[2]]

\* emotion_scores[label] = score: the value replaced where the key is, the
\* pair appended where it is not.
SetItem(pairs, key, value) ==
    IF \E i \in 1..Len(pairs) : pairs[i][1] = key
    THEN [i \in 1..Len(pairs) |-> IF pairs[i][1] = key THEN <<key, value>> ELSE pairs[i]]
    ELSE Append(pairs, <<key, value>>)

\* The state of the conversion of lines 198-243: the dict so far, and
\* whether an exception ended it.
Parsed(pairs) == [raised |-> FALSE, pairs |-> pairs]

ParseRaised == [raised |-> TRUE, pairs |-> << >>]

\* Lines 204-208 and 232-236: an item that is a dict.
parse_record(acc, item) ==
    LET label_value == PyGet(item, "label", PyStr(""))
        score == PyGet(item, "score", PyNum(Zero))
    IN  IF label_value[1] # "str" THEN ParseRaised
        ELSE IF Lower(label_value[2]) = "" THEN acc
        ELSE IF FloatRaises(score) THEN ParseRaised
        ELSE Parsed(SetItem(acc.pairs, Lower(label_value[2]), score[2]))

\* Lines 209-227: an item that is a list or a tuple of two or more, its
\* first element a str.
parse_pair(acc, item) ==
    LET label == Lower(item[2][1][2])
        score_value == item[2][2]
        inner == PyGet(score_value, "score", PyNum(Zero))
    IN  IF score_value[1] = "dict"
        THEN IF FloatRaises(inner) THEN ParseRaised
             ELSE IF label = "" THEN acc
             ELSE Parsed(SetItem(acc.pairs, label, inner[2]))
        ELSE LET score == IF score_value[1] = "num" THEN score_value[2] ELSE Zero
             IN  IF label = "" THEN acc ELSE Parsed(SetItem(acc.pairs, label, score))

\* Lines 202-228: the loop over the first k items of a list.
RECURSIVE parse_items(_, _)
parse_items(items, k) ==
    IF k = 0 THEN Parsed(<< >>)
    ELSE LET acc == parse_items(items, k - 1)
             item == items[k]
         IN  IF acc.raised THEN acc
             ELSE IF item[1] = "dict" THEN parse_record(acc, item)
             ELSE IF item[1] \in {"list", "tuple"} /\ Len(item[2]) >= 2
             THEN parse_pair(acc, item)
             ELSE acc

\* Lines 239-243: the loop over the first k pairs of a dict of emotions.
RECURSIVE parse_mapping(_, _)
parse_mapping(pairs, k) ==
    IF k = 0 THEN Parsed(<< >>)
    ELSE LET acc == parse_mapping(pairs, k - 1)
             key == pairs[k][1]
             value == pairs[k][2]
         IN  IF acc.raised THEN acc
             ELSE IF value[1] = "num"
             THEN Parsed(SetItem(acc.pairs, Lower(key), value[2]))
             ELSE IF value[1] = "dict" /\ HasKey(value, "score")
             THEN IF FloatRaises(PyGet(value, "score", PyNone)) THEN ParseRaised
                  ELSE Parsed(SetItem(acc.pairs, Lower(key),
                                      PyGet(value, "score", PyNone)[2]))
             ELSE acc

\* Lines 198-243: emotion_scores from emotion_results.
parse_emotions(emotion_results) ==
    IF ~Truthy(emotion_results) THEN Parsed(<< >>)
    ELSE IF emotion_results[1] = "list"
    THEN parse_items(emotion_results[2], Len(emotion_results[2]))
    ELSE IF emotion_results[1] = "dict"
    THEN IF HasKey(emotion_results, "label")
         THEN parse_record(Parsed(<< >>), emotion_results)
         ELSE parse_mapping(emotion_results[2], Len(emotion_results[2]))
    ELSE Parsed(<< >>)

\* Lines 189-194 with the except clause left out: the classifier's
\* exception goes on.
emotion_results_unguarded(out) == out

\* Lines 189-194: the classifier's result, [] when it raised.
emotion_results_of(out) == IF out.raises THEN Returns(PyList(<< >>)) ELSE out

\* The dict of a sequence of pairs with distinct keys.
AsDict(pairs) ==
    [key \in {pairs[i][1] : i \in 1..Len(pairs)} |->
        pairs[CHOOSE i \in 1..Len(pairs) : pairs[i][1] = key][2]]

\* Lines 246-250: None for the empty dict, else the first key, in insertion
\* order, with the largest score.
primary_of(pairs) ==
    IF Len(pairs) = 0 THEN "<None>"
    ELSE pairs[CHOOSE i \in 1..Len(pairs) :
                  /\ \A j \in 1..Len(pairs) : RLeq(pairs[j][2], pairs[i][2])
                  /\ \A j \in 1..(i - 1) : RLess(pairs[j][2], pairs[i][2])][1]

\* Lines 245-258: the record built from the normalised sentiment and the
\* emotion dict, given as its pairs in insertion order.  The dict is kept as
\* its mapping, emotion_scores, and the order of its keys, emotion_keys.
FeatureRecord(label, score, pairs) ==
    [sentiment_label       |-> label,
     sentiment_score       |-> score,
     emotion_scores        |-> AsDict(pairs),
     emotion_keys          |-> [i \in 1..Len(pairs) |-> pairs[i][1]],
     primary_emotion       |-> primary_of(pairs),
     primary_emotion_score |->
         IF Len(pairs) = 0 THEN Zero ELSE AsDict(pairs)[primary_of(pairs)]]

\* What a call that raised leaves its caller.
NoRecord == FeatureRecord("NEUTRAL", Zero, << >>)

\* Lines 155-258: the returned record, or the exception; emotion_called
\* tells whether the call got as far as line 190.
analyze_single_response(sent_out, emo_out) ==
    LET sentiment == analyze_sentiment(sent_out)
        results == emotion_results_of(emo_out)
        parsed == parse_emotions(results.value)
    IN  IF sentiment.raised \/ results.raises \/ parsed.raised
        THEN [raised |-> TRUE, emotion_called |-> ~sentiment.raised,
              record |-> NoRecord]
        ELSE [raised |-> FALSE, emotion_called |-> TRUE,
              record |-> FeatureRecord(sentiment.label, sentiment.score, parsed.pairs)]

----------------------------------------------------------------------------
(* calculate_eq_scores                                                     *)

\* A feature record carries sentiment_label, sentiment_score, emotion_scores
\* (a dict from emotion label to score), primary_emotion, primary_emotion_score.

\* The loop of lines 300-312 over the first k records: the three running
\* sentiment totals and the count.
RECURSIVE sentiment_totals(_, _)
sentiment_totals(recs, k) ==
    IF k = 0
    THEN [positive |-> Zero, negative |-> Zero, neutral |-> Zero, count |-> 0]
    ELSE LET t == sentiment_totals(recs, k - 1)
             sentiment_label == recs[k].sentiment_label
             sentiment_score == recs[k].sentiment_score
         IN  IF sentiment_label = "POSITIVE"
             THEN [t EXCEPT !.positive = RAdd(@, sentiment_score), !.count = @ + 1]
             ELSE IF sentiment_label = "NEGATIVE"
             THEN [t EXCEPT !.negative = RAdd(@, sentiment_score), !.count = @ + 1]
             ELSE [t EXCEPT !.neutral = RAdd(@, sentiment_score), !.count = @ + 1]

\* The ratio every sentiment gets when there is no record (line 326): 0.33
DefaultSentimentRatio == Rat(33, 100)

\* sentiment_ratios with each total divided by the sum of the three totals:
\* shares of the sentiment seen, not means over the records.
sentiment_ratios_as_shares(t) ==
    IF t.count > 0
    THEN [positive |-> RDiv(t.positive, RAdd(RAdd(t.positive, t.negative), t.neutral)),
          negative |-> RDiv(t.negative, RAdd(RAdd(t.positive, t.negative), t.neutral)),
          neutral  |-> RDiv(t.neutral, RAdd(RAdd(t.positive, t.negative), t.neutral))]
    ELSE [positive |-> DefaultSentimentRatio,
          negative |-> DefaultSentimentRatio,
          neutral  |-> DefaultSentimentRatio]

\* Lines 320-326
sentiment_ratios(t) ==
    IF t.count > 0
    THEN [positive |-> RDiv(t.positive, FromInt(t.count)),
          negative |-> RDiv(t.negative, FromInt(t.count)),
          neutral  |-> RDiv(t.neutral, FromInt(t.count))]
    ELSE [positive |-> DefaultSentimentRatio,
          negative |-> DefaultSentimentRatio,
          neutral  |-> DefaultSentimentRatio]

\* The loop of lines 314-318 over the first k records.
RECURSIVE emotion_totals(_, _)
emotion_totals(recs, k) ==
    IF k = 0 THEN EmptyDict
    ELSE LET t == emotion_totals(recs, k - 1)
             es == recs[k].emotion_scores
         IN  [e \in DOMAIN t \cup DOMAIN es |->
                 RAdd(DictGet(t, e, Zero), DictGet(es, e, Zero))]

\* emotion_ratios without the fallback of lines 334-337: it divides by the
\* grand sum whatever it is.
emotion_ratios_no_fallback(totals) ==
    [e \in DOMAIN totals |-> RDiv(totals[e], SumValues(totals))]

\* Lines 329-337
emotion_ratios(totals) ==
    LET total_emotion_score == SumValues(totals)
    IN  IF RLess(Zero, total_emotion_score)
        THEN [e \in DOMAIN totals |-> RDiv(totals[e], total_emotion_score)]
        ELSE [e \in DOMAIN totals |->
                 IF DOMAIN totals # {}
                 THEN RDiv(FromInt(1), FromInt(Cardinality(DOMAIN totals)))
                 ELSE Zero]

\* The age used when the demographics carry none (line 371)
DefaultAge == 30

\* The age from which the age factor is 1 (line 372)
AgeScale == 60

\* Lines 371-372
age_factor(demo) ==
    LET age == IF "age" \in DOMAIN demo THEN demo["age"] ELSE DefaultAge
    IN  PyMin(FromInt(1), RDiv(FromInt(age), FromInt(AgeScale)))

\* The clamp with its lower bound forgotten.
Clamp_upper_only(x) == PyMin(FromInt(100), x)

\* max(0, min(100, x)) of lines 379-384
Clamp(x) == PyMax(FromInt(0), PyMin(FromInt(100), x))

\* 50 + 50 * x
Base(x) == RAdd(FromInt(50), RMul(FromInt(50), x))

\* The resilience score with the age adjustment added to the clamped base.
emotional_resilience_adjust_late(positive_ratio, negative_ratio, fear_ratio, af) ==
    LET base == RAdd(FromInt(50), RMul(FromInt(50),
                    RSub(RSub(positive_ratio, negative_ratio),
                         RMul(fear_ratio, Rat(1, 2)))))
        clamped == PyMax(FromInt(0), PyMin(FromInt(100), base))
    IN  RAdd(clamped, RMul(af, FromInt(5)))

\* Lines 356 and 374: the resilience score before the clamp
emotional_resilience_raw(positive_ratio, negative_ratio, fear_ratio, af) ==
    RAdd(Base(RSub(RSub(positive_ratio, negative_ratio),
                   RMul(fear_ratio, Rat(1, 2)))),
         RMul(af, FromInt(5)))

\* Lines 368 and 375: the stress score before the clamp
stress_management_raw(positive_ratio, fear_ratio, anger_ratio, af) ==
    RAdd(Base(RSub(RSub(positive_ratio, fear_ratio), anger_ratio)),
         RMul(af, FromInt(3)))

\* The cultural score with the neutral sentiment ratio left out.
cultural_awareness_no_sentiment(neutral_ratio, love_ratio, disgust_ratio) ==
    RAdd(FromInt(50), RMul(FromInt(50), RSub(love_ratio, disgust_ratio)))

\* Line 362
cultural_awareness_raw(neutral_ratio, love_ratio, disgust_ratio) ==
    Base(RSub(RAdd(neutral_ratio, love_ratio), disgust_ratio))

\* np.mean of the six category scores (line 388)
MeanOfSix(c) ==
    RDiv(RAdd(RAdd(RAdd(RAdd(RAdd(c.self_awareness, c.emotional_resilience),
                             c.conflict_resolution),
                        c.cultural_awareness),
                   c.empathy),
              c.stress_management),
         FromInt(6))

\* The local variables of calculate_eq_scores when it returns.
calculate_eq_scores_frame(recs, demo) ==
    LET st == sentiment_totals(recs, Len(recs))
        sr == sentiment_ratios(st)
        et == emotion_totals(recs, Len(recs))
        er == emotion_ratios(et)
        joy_ratio     == DictGet(er, "joy", Zero)
        sadness_ratio == DictGet(er, "sadness", Zero)
        anger_ratio   == DictGet(er, "anger", Zero)
        fear_ratio    == DictGet(er, "fear", Zero)
        disgust_ratio == DictGet(er, "disgust", Zero)
        love_ratio    == DictGet(er, "love", Zero)
        af == age_factor(demo)
        self_awareness ==
            Base(RSub(RSub(RAdd(joy_ratio, love_ratio), sadness_ratio), anger_ratio))
        emotional_resilience ==
            emotional_resilience_raw(sr.positive, sr.negative, fear_ratio, af)
        conflict_resolution ==
            Base(RSub(RSub(sr.positive, anger_ratio), disgust_ratio))
        cultural_awareness ==
            cultural_awareness_raw(sr.neutral, love_ratio, disgust_ratio)
        empathy ==
            Base(RSub(RAdd(love_ratio, RMul(sadness_ratio, Rat(7, 10))), disgust_ratio))
        stress_management ==
            stress_management_raw(sr.positive, fear_ratio, anger_ratio, af)
        category_scores ==
            [self_awareness       |-> Clamp(self_awareness),
             emotional_resilience |-> Clamp(emotional_resilience),
             conflict_resolution  |-> Clamp(conflict_resolution),
             cultural_awareness   |-> Clamp(cultural_awareness),
             empathy              |-> Clamp(empathy),
             stress_management    |-> Clamp(stress_management)]
    IN  [sentiment_count |-> st.count,
         positive_ratio  |-> sr.positive,
         negative_ratio  |-> sr.negative,
         neutral_ratio   |-> sr.neutral,
         emotion_totals  |-> et,
         emotion_ratios  |-> er,
         joy_ratio       |-> joy_ratio,
         sadness_ratio   |-> sadness_ratio,
         anger_ratio     |-> anger_ratio,
         fear_ratio      |-> fear_ratio,
         disgust_ratio   |-> disgust_ratio,
         love_ratio      |-> love_ratio,
         age_factor      |-> af,
         self_awareness       |-> self_awareness,
         emotional_resilience |-> emotional_resilience,
         conflict_resolution  |-> conflict_resolution,
         cultural_awareness   |-> cultural_awareness,
         empathy              |-> empathy,
         stress_management    |-> stress_management,
         category_scores |-> category_scores,
         overall_score   |-> MeanOfSix(category_scores)]

\* Whether a frame holds the value of a division by zero.
Raised(f) ==
    \/ ZeroDivisionError \in {f.positive_ratio, f.negative_ratio, f.neutral_ratio}
    \/ \E e \in DOMAIN f.emotion_ratios : f.emotion_ratios[e] = ZeroDivisionError

\* Line 390: what a call that ends with the locals f gives its caller, the
\* pair (category_scores, overall_score) or the exception.
Returned(f) ==
    [raised          |-> Raised(f),
     category_scores |-> f.category_scores,
     overall_score   |-> f.overall_score]

\* Lines 276-390
calculate_eq_scores(recs, demo) == Returned(calculate_eq_scores_frame(recs, demo))

----------------------------------------------------------------------------
(* interpret_overall_eq                                                    *)

\* The thresholds compared the other way round: <= 40 and < 70.
interpret_overall_eq_swapped(score) ==
    IF RLeq(score, FromInt(40)) THEN "Low EQ"
    ELSE IF RLess(score, FromInt(70)) THEN "Average EQ"
    ELSE "High EQ"

\* Lines 392-407
interpret_overall_eq(score) ==
    IF RLess(score, FromInt(40)) THEN "Low EQ"
    ELSE IF RLeq(score, FromInt(70)) THEN "Average EQ"
    ELSE "High EQ"

----------------------------------------------------------------------------
(* The feature records and demographics calculate_eq_scores is applied to. *)

\* The most records a list given to calculate_eq_scores holds.
MaxRecords == 2

SentimentLabels == {"POSITIVE", "NEGATIVE", "NEUTRAL"}

Half == Rat(1, 2)

One == FromInt(1)

\* The (sentiment_label, sentiment_score) pairs of the records, scores in
\* [0, 1].
SentimentInputs ==
    { <<"POSITIVE", Half>>, <<"POSITIVE", One>>, <<"NEGATIVE", One>>,
      <<"NEUTRAL", Zero>>, <<"NEUTRAL", Half>> }

\* Emotion dicts, as their pairs in insertion order: none detected, all
\* detected at score 0, and mixes of the labels the scorer reads with one it
\* does not ("surprise").
EmotionDicts ==
    { << >>,
      << <<"joy", Zero>>, <<"fear", Zero>> >>,
      << <<"fear", Half>>, <<"joy", One>> >>,
      << <<"anger", One>>, <<"disgust", One>> >>,
      << <<"love", One>>, <<"sadness", Half>> >>,
      << <<"surprise", Half>>, <<"sadness", Half>> >> }

\* The records analyze_single_response can return, and one with a label it
\* never gives, which calculate_eq_scores takes all the same.
FeatureRecords ==
    { FeatureRecord(ls[1], ls[2], m) : ls \in SentimentInputs, m \in EmotionDicts }
    \cup { FeatureRecord("MIXED", One, << >>) }

AnalysesInputs == UNION { [1..n -> FeatureRecords] : n \in 0..MaxRecords }

\* The ages the form admits (10..100), sampled, and demographics with no age.
Ages == {10, 100}

DemographicsInputs ==
    { [k \in {"age"} |-> a] : a \in Ages } \cup { [k \in {} |-> 0] }

NoScores ==
    [raised |-> FALSE,
     category_scores |-> [self_awareness |-> Zero, emotional_resilience |-> Zero,
                          conflict_resolution |-> Zero, cultural_awareness |-> Zero,
                          empathy |-> Zero, stress_management |-> Zero],
     overall_score |-> Zero]

NoLocals == calculate_eq_scores_frame(<< >>, [k \in {} |-> 0])

vars ==
    <<pc, session, http_response, invoked, classifiers, assessed, analyses, demographics, scores, locals, responses, validation,
      overall_score, eq_level, sentiment_out, emotion_out, analysis,
      scenario_text>>

scoresVars == <<analyses, demographics, scores, locals>>

validateVars == <<responses, validation>>

interpretVars == <<overall_score, eq_level>>

analyzeVars == <<sentiment_out, emotion_out, analysis>>

sessionVars == <<session, http_response, invoked, classifiers, assessed>>

scenarioVars == <<scenario_text>>

\* The variable of the generate_scenario harness, at rest.
IdleScenario == scenario_text = ""

\* The answer to no request at all.
NoResponse ==
    [view |-> "", method |-> "", status |-> "", to |-> "", message |-> "",
     context |-> EmptyDict]

\* No assessment has given the session scores.
NotAssessed ==
    [stored |-> FALSE, demographics |-> [k \in {} |-> 0], scenario |-> "",
     scores |-> NoScores]

\* No request served: an empty session, nothing answered, nothing called.
IdleSession ==
    /\ session = EmptyDict
    /\ http_response = NoResponse
    /\ invoked = {}
    /\ classifiers = << >>
    /\ assessed = NotAssessed

\* The variables of the calculate_eq_scores harness, at rest.
IdleScores ==
    /\ analyses = << >>
    /\ demographics = [k \in {} |-> 0]
    /\ scores = NoScores
    /\ locals = NoLocals

\* The variables of the validate_responses harness, at rest.
IdleValidate ==
    /\ responses = << >>
    /\ validation = [ok |-> TRUE, error |-> NoError]

\* The variables of the interpret_overall_eq harness, at rest.
IdleInterpret ==
    /\ overall_score = Zero
    /\ eq_level = "Low EQ"

\* The variables of the analyze_single_response harness, at rest.
IdleAnalyze ==
    /\ sentiment_out = Returns(PyNone)
    /\ emotion_out = Returns(PyNone)
    /\ analysis = [raised |-> FALSE, emotion_called |-> FALSE, record |-> NoRecord]

InitScores ==
    /\ pc = "input"
    /\ analyses \in AnalysesInputs
    /\ demographics \in DemographicsInputs
    /\ scores = NoScores
    /\ locals = NoLocals
    /\ IdleValidate
    /\ IdleInterpret
    /\ IdleAnalyze
    /\ IdleSession
    /\ IdleScenario

\* One call of calculate_eq_scores on the drawn input.
CalculateScores ==
    /\ pc = "input"
    /\ pc' = "done"
    /\ locals' = calculate_eq_scores_frame(analyses, demographics)
    /\ scores' = Returned(locals')
    /\ UNCHANGED <<sessionVars, scenarioVars, analyses, demographics, validateVars, interpretVars, analyzeVars>>

NextScores == CalculateScores

SpecScores == InitScores /\ [][NextScores]_vars

----------------------------------------------------------------------------
(* The batches validate_responses is applied to.                           *)

\* The most responses a batch holds.
MaxBatch == 2

Word == <<"o", "k">>

\* k words with the separator sep between them.
RECURSIVE Sentence(_, _)
Sentence(k, sep) ==
    IF k = 0 THEN << >>
    ELSE IF k = 1 THEN Word
    ELSE Sentence(k - 1, sep) \o sep \o Word

\* Word counts around the minimum, and none and one.
WordCounts == {0, 1} \cup ((min_words_per_response - 1)..(min_words_per_response + 1))

Pads == { << >>, <<" ", "\n">> }

Separators == { <<" ">>, <<"\t", " ">> }

ResponseTexts ==
    { pad \o Sentence(k, sep) \o pad : pad \in Pads, k \in WordCounts, sep \in Separators }

BatchInputs == UNION { [1..n -> ResponseTexts] : n \in 0..MaxBatch }

InitValidate ==
    /\ pc = "input"
    /\ responses \in BatchInputs
    /\ validation = [ok |-> TRUE, error |-> NoError]
    /\ IdleScores
    /\ IdleInterpret
    /\ IdleAnalyze
    /\ IdleSession
    /\ IdleScenario

\* One call of validate_responses on the drawn batch.
Validate ==
    /\ pc = "input"
    /\ pc' = "done"
    /\ validation' = validate_responses(responses)
    /\ UNCHANGED <<sessionVars, scenarioVars, responses, scoresVars, interpretVars, analyzeVars>>

NextValidate == Validate

SpecValidate == InitValidate /\ [][NextValidate]_vars

----------------------------------------------------------------------------
(* Properties of validate_responses, under SpecValidate.                   *)

\* A text of whitespace only (the empty text too).
RefBlank(text) == \A j \in 1..Len(text) : text[j] \in Whitespace

\* The number of places where a word starts.
RefWordCount(text) ==
    Cardinality({ j \in 1..Len(text) :
                    /\ text[j] \notin Whitespace
                    /\ (j = 1 \/ text[j - 1] \in Whitespace) })

RefFails(text) == RefBlank(text) \/ RefWordCount(text) < 10

\* C1: validate_responses returns (True, None) exactly when every response
\* is non-blank and has at least 10 words; otherwise (False, message), the
\* message naming the 1-based index of the first failing response, of the
\* "cannot be empty" kind when that response is blank and of the "too short"
\* kind, with the required and the actual word count, otherwise.  Later
\* responses have no part in the result.
C1_ValidateFailFast ==
    pc = "done" =>
        LET bad == { i \in 1..Len(responses) : RefFails(responses[i]) }
        IN  IF bad = {}
            THEN validation = [ok |-> TRUE, error |-> NoError]
            ELSE LET first == CHOOSE i \in bad : \A j \in bad : i <= j
                 IN  /\ validation.ok = FALSE
                     /\ validation.error.answer = first
                     /\ IF RefBlank(responses[first])
                        THEN validation.error.kind = "empty"
                        ELSE /\ validation.error.kind = "short"
                             /\ validation.error.required = 10
                             /\ validation.error.actual = RefWordCount(responses[first])

\* C1 witness: the first response has exactly the minimum of words, padded,
\* and passes; the second is whitespace only and is the one reported.
C1_Witness ==
    /\ pc = "done"
    /\ Len(responses) = 2
    /\ RefWordCount(responses[1]) = 10
    /\ Len(responses[1]) > Len(strip(responses[1]))
    /\ Len(responses[2]) > 0 /\ RefBlank(responses[2])
    /\ validation = [ok |-> FALSE, error |-> EmptyError(1)]

----------------------------------------------------------------------------
(* The scores interpret_overall_eq is applied to, and its properties,      *)
(* under SpecInterpret.                                                    *)

\* The scores are the multiples of 1/ScoreSteps from -1 to 101.
ScoreSteps == 100

ScoreInputs == { Rat(n, ScoreSteps) : n \in (-ScoreSteps)..(101 * ScoreSteps) }

InitInterpret ==
    /\ pc = "input"
    /\ overall_score \in ScoreInputs
    /\ eq_level = "Low EQ"
    /\ IdleScores
    /\ IdleValidate
    /\ IdleAnalyze
    /\ IdleSession
    /\ IdleScenario

\* One call of interpret_overall_eq on the drawn score.
Interpret ==
    /\ pc = "input"
    /\ pc' = "done"
    /\ eq_level' = interpret_overall_eq(overall_score)
    /\ UNCHANGED <<sessionVars, scenarioVars, overall_score, scoresVars, validateVars, analyzeVars>>

NextInterpret == Interpret

SpecInterpret == InitInterpret /\ [][NextInterpret]_vars

\* The order of the levels.
LevelRank(level) ==
    CASE level = "Low EQ" -> 0
      [] level = "Average EQ" -> 1
      [] level = "High EQ" -> 2

\* The score one grid step below.
StepBelow(score) == RSub(score, Rat(1, ScoreSteps))

\* C5: interpret_overall_eq gives "Low EQ" below 40, "Average EQ" from 40
\* to 70, both included, and "High EQ" above 70: one of the three labels for
\* every score, and never a lower level for a higher score.
C5_InterpretThresholds ==
    pc = "done" =>
        /\ eq_level \in {"Low EQ", "Average EQ", "High EQ"}
        /\ (eq_level = "Low EQ") = (overall_score[1] < 40 * overall_score[2])
        /\ (eq_level = "Average EQ") =
               (40 * overall_score[2] <= overall_score[1]
                   /\ overall_score[1] <= 70 * overall_score[2])
        /\ (eq_level = "High EQ") = (overall_score[1] > 70 * overall_score[2])
        /\ \A q \in {StepBelow(overall_score), RSub(overall_score, FromInt(30)),
                      FromInt(40), FromInt(70)} :
               RLeq(q, overall_score) =>
                   LevelRank(interpret_overall_eq(q)) <= LevelRank(eq_level)

\* C5 witness: the score is exactly 70 and the level is "Average EQ".
C5_Witness ==
    /\ pc = "done"
    /\ overall_score = FromInt(70)
    /\ eq_level = "Average EQ"

----------------------------------------------------------------------------
(* The classifier outputs analyze_single_response is applied to.           *)

\* {'label': label, 'score': score}
ResultRecord(label, score) == PyDict(<< <<"label", label>>, <<"score", score>> >>)

\* Sentiment outputs that are a single result or a list of one result.
SentimentResults ==
    { ResultRecord(PyStr(l), PyNum(q)) :
        l \in {"POSITIVE", "NEGATIVE", "pos", "Neg", "neutral", "label_1"},
        q \in {Rat(1, 2), One} }

WellFormedSentiment ==
    SentimentResults \cup { PyList(<<r>>) : r \in SentimentResults }

\* Sentiment outputs that are missing, or of no recognised shape.
UnrecognisedSentiment ==
    { PyNone, PyList(<< >>), PyStr("POSITIVE"), PyNum(One),
      PyTuple(<<ResultRecord(PyStr("POSITIVE"), PyNum(One))>>) }

\* Records that lack the label, the score or both.
IncompleteSentiment ==
    { PyDict(<< >>),
      PyDict(<< <<"score", PyNum(One)>> >>),
      PyDict(<< <<"label", PyStr("POSITIVE")>> >>),
      PyList(<< PyDict(<< <<"label", PyStr("NEG")>> >>) >>) }

\* A list whose first element is no record; a label that is no text; a
\* score that is no number.
MalformedSentiment ==
    { PyList(<<PyNone>>),
      PyList(<<PyStr("POSITIVE")>>),
      ResultRecord(PyNone, PyNum(One)),
      ResultRecord(PyNum(One), PyNum(One)),
      ResultRecord(PyStr("POSITIVE"), PyStr("high")),
      ResultRecord(PyStr("POSITIVE"), PyNone),
      PyList(<<ResultRecord(PyStr("NEGATIVE"), PyNone)>>) }

SentimentOutputs ==
    { Returns(v) : v \in WellFormedSentiment \cup UnrecognisedSentiment
                           \cup IncompleteSentiment \cup MalformedSentiment }
    \cup { Raises }

\* Emotion outputs of the documented shapes: nothing, a list of records, a
\* list of pairs, a single record, a dict keyed by label.
WellFormedEmotion ==
    { PyNone,
      PyList(<< >>),
      PyStr("joy"),
      PyList(<< ResultRecord(PyStr("joy"), PyNum(Half)),
                ResultRecord(PyStr("Fear"), PyNum(One)),
                ResultRecord(PyStr("anger"), PyNum(One)) >>),
      PyList(<< ResultRecord(PyStr("joy"), PyNum(Zero)),
                ResultRecord(PyStr("fear"), PyNum(Zero)) >>),
      PyList(<< ResultRecord(PyStr("joy"), PyNum(Half)),
                ResultRecord(PyStr("JOY"), PyNum(One)),
                PyDict(<< <<"score", PyNum(One)>> >>),
                PyStr("anger"),
                PyTuple(<<PyStr("love")>>),
                PyDict(<< <<"label", PyStr("disgust")>> >>) >>),
      PyList(<< PyTuple(<<PyStr("Sadness"), PyNum(Half)>>),
                PyList(<<PyStr("love"), PyDict(<< <<"score", PyNum(One)>> >>)>>),
                PyTuple(<<PyStr("fear"), PyStr("high")>>),
                PyTuple(<<PyStr("anger"), PyNone>>),
                PyTuple(<<PyStr(""), PyNum(One)>>) >>),
      ResultRecord(PyStr("Joy"), PyNum(One)),
      PyDict(<< <<"joy", PyNum(Half)>>,
                <<"LOVE", PyDict(<< <<"score", PyNum(One)>> >>)>>,
                <<"fear", PyStr("high")>>,
                <<"anger", PyDict(<< <<"value", PyNum(One)>> >>)>> >>) }

\* Emotion outputs whose conversion raises: a label that is no text, a score
\* that is no number.
MalformedEmotion ==
    { PyList(<< ResultRecord(PyNone, PyNum(One)) >>),
      PyList(<< ResultRecord(PyStr("joy"), PyNum(One)),
                ResultRecord(PyStr("fear"), PyStr("high")) >>),
      PyList(<< PyTuple(<<PyStr("joy"), PyDict(<< <<"score", PyNone>> >>)>>) >>),
      PyDict(<< <<"joy", PyDict(<< <<"score", PyStr("high")>> >>)>> >>) }

EmotionOutputs ==
    { Returns(v) : v \in WellFormedEmotion \cup MalformedEmotion } \cup { Raises }

InitAnalyze ==
    /\ pc = "input"
    /\ sentiment_out \in SentimentOutputs
    /\ emotion_out \in EmotionOutputs
    /\ analysis = [raised |-> FALSE, emotion_called |-> FALSE, record |-> NoRecord]
    /\ IdleScores
    /\ IdleValidate
    /\ IdleInterpret
    /\ IdleSession
    /\ IdleScenario

\* One call of analyze_single_response with the drawn classifier outputs.
Analyze ==
    /\ pc = "input"
    /\ pc' = "done"
    /\ analysis' = analyze_single_response(sentiment_out, emotion_out)
    /\ UNCHANGED <<sessionVars, scenarioVars, sentiment_out, emotion_out, scoresVars, validateVars, interpretVars>>

NextAnalyze == Analyze

SpecAnalyze == InitAnalyze /\ [][NextAnalyze]_vars

----------------------------------------------------------------------------
(* Properties of analyze_single_response, under SpecAnalyze.               *)

\* The label a well-formed or incomplete sentiment result stands for.
RefSentimentLabel(output) ==
    LET result == IF output[1] = "list" THEN output[2][1] ELSE output
        label == IF HasKey(result, "label") THEN PyGet(result, "label", PyNone)[2]
                 ELSE "NEUTRAL"
    IN  IF label \in {"POSITIVE", "pos"} THEN "POSITIVE"
        ELSE IF label \in {"NEGATIVE", "Neg", "NEG"} THEN "NEGATIVE"
        ELSE "NEUTRAL"

\* The emotion classifier raised or gave one of the documented shapes.
EmotionBenign == emotion_out.raises \/ emotion_out.value \in WellFormedEmotion

\* C8 as stated: for a single result, a list of one result, or a missing or
\* malformed result (None, an empty list, a list whose first element is no
\* record, a record lacking or carrying a non-text label or a non-numeric
\* score) analyze_single_response never raises and returns a sentiment label
\* in {POSITIVE, NEGATIVE, NEUTRAL}, NEUTRAL with score 0.5 on unrecognised
\* shapes.
C8_TotalOverSentimentShapes ==
    (pc = "done" /\ ~sentiment_out.raises /\ EmotionBenign) =>
        /\ ~analysis.raised
        /\ analysis.record.sentiment_label \in SentimentLabels
        /\ sentiment_out.value \in UnrecognisedSentiment \cup MalformedSentiment =>
              /\ analysis.record.sentiment_label = "NEUTRAL"
              /\ analysis.record.sentiment_score = Half

\* The part of C8 the code keeps: on well-formed, incomplete and
\* unrecognised shapes the call returns, with the label mapped.
C8_HoldsOnTheRest ==
    (pc = "done" /\ ~sentiment_out.raises /\ EmotionBenign
        /\ sentiment_out.value \notin MalformedSentiment) =>
        /\ ~analysis.raised
        /\ analysis.record.sentiment_label \in SentimentLabels
        /\ sentiment_out.value \in UnrecognisedSentiment =>
              /\ analysis.record.sentiment_label = "NEUTRAL"
              /\ analysis.record.sentiment_score = Half
        /\ sentiment_out.value \in WellFormedSentiment \cup IncompleteSentiment =>
              analysis.record.sentiment_label = RefSentimentLabel(sentiment_out.value)

\* C9: when the emotion classifier raises, analyze_single_response returns
\* a record with an empty emotion mapping, no primary emotion and primary
\* score 0.0, its sentiment label and score those of the same call with an
\* emotion classifier that succeeds; and in every returned record the
\* primary emotion is absent iff the mapping is empty, and else is a key of
\* the mapping with the largest score.
C9_EmotionFaultAbsorbed ==
    pc = "done" =>
        /\ (analysis.emotion_called /\ emotion_out.raises) =>
              /\ ~analysis.raised
              /\ DOMAIN analysis.record.emotion_scores = {}
              /\ analysis.record.primary_emotion = "<None>"
              /\ analysis.record.primary_emotion_score = Zero
              /\ \A v \in WellFormedEmotion :
                    LET other == analyze_single_response(sentiment_out, Returns(v))
                    IN  /\ ~other.raised
                        /\ other.record.sentiment_label = analysis.record.sentiment_label
                        /\ other.record.sentiment_score = analysis.record.sentiment_score
        /\ ~analysis.raised =>
              LET r == analysis.record
              IN  /\ (r.primary_emotion = "<None>") = (DOMAIN r.emotion_scores = {})
                  /\ r.primary_emotion # "<None>" =>
                        /\ r.primary_emotion \in DOMAIN r.emotion_scores
                        /\ r.primary_emotion_score = r.emotion_scores[r.primary_emotion]
                        /\ \A k \in DOMAIN r.emotion_scores :
                              RLeq(r.emotion_scores[k], r.primary_emotion_score)

\* C9 witness: the sentiment classifier gave a list of one result, the
\* emotion classifier raised, and the call returned a record.
C9_Witness ==
    /\ pc = "done"
    /\ sentiment_out = Returns(PyList(<<ResultRecord(PyStr("pos"), PyNum(One))>>))
    /\ emotion_out.raises
    /\ ~analysis.raised
    /\ analysis.record.sentiment_label = "POSITIVE"
    /\ analysis.record.primary_emotion = "<None>"

----------------------------------------------------------------------------
(* Properties of calculate_eq_scores, under SpecScores.                    *)

Hundred == FromInt(100)

IsNumber(x) == x[2] > 0

InRange(x) == IsNumber(x) /\ RLeq(Zero, x) /\ RLeq(x, Hundred)

Categories ==
    {"self_awareness", "emotional_resilience", "conflict_resolution",
     "cultural_awareness", "empathy", "stress_management"}

\* C3: for every list of feature records with scores in [0,1] (the empty
\* list too) and every age, calculate_eq_scores returns six category scores
\* and an overall score that all lie in [0,100].
C3_ScoresInRange ==
    pc = "done" =>
        /\ ~scores.raised
        /\ DOMAIN scores.category_scores = Categories
        /\ \A c \in Categories : InRange(scores.category_scores[c])
        /\ InRange(scores.overall_score)

\* C3 witness: a call in which the lower clamp acted (the adjusted
\* resilience was negative and the returned score is 0).
C3_Witness ==
    /\ pc = "done"
    /\ RLess(locals.emotional_resilience, Zero)
    /\ scores.category_scores.emotional_resilience = Zero

\* The reference heuristic, computed from the records by label and by
\* emotion rather than by the running totals of the code.
RefN(recs) == Len(recs)

RefSentimentRatio(recs, labels) ==
    IF RefN(recs) = 0 THEN Rat(33, 100)
    ELSE RDiv(SumOver([i \in 1..Len(recs) |-> recs[i].sentiment_score],
                      {i \in 1..Len(recs) : recs[i].sentiment_label \in labels}),
              FromInt(RefN(recs)))

\* The labels of the records that are neither POSITIVE nor NEGATIVE.
RefOtherLabels(recs) ==
    { recs[i].sentiment_label : i \in 1..Len(recs) } \ {"POSITIVE", "NEGATIVE"}

RefKeys(recs) == UNION { DOMAIN recs[i].emotion_scores : i \in 1..Len(recs) }

RefEmotionTotal(recs, e) ==
    SumOver([i \in 1..Len(recs) |-> DictGet(recs[i].emotion_scores, e, Zero)],
            1..Len(recs))

RefGrandTotal(recs) ==
    SumOver([e \in RefKeys(recs) |-> RefEmotionTotal(recs, e)], RefKeys(recs))

\* The ratio of emotion e, given the observed keys and the grand total.
RefEmotionRatio(recs, e, keys, grand) ==
    IF e \notin keys THEN Zero
    ELSE IF RLess(Zero, grand)
    THEN RDiv(RefEmotionTotal(recs, e), grand)
    ELSE RDiv(One, FromInt(Cardinality(keys)))

RefClamp(x) == IF RLess(x, Zero) THEN Zero ELSE IF RLess(Hundred, x) THEN Hundred ELSE x

RefAgeFactor(demo) ==
    LET age == IF "age" \in DOMAIN demo THEN demo["age"] ELSE 30
    IN  IF age >= 60 THEN One ELSE Rat(age, 60)

\* clamp(50 + 50 * x + adj)
RefScore(x, adj) ==
    RefClamp(RAdd(RAdd(FromInt(50), RMul(FromInt(50), x)), adj))

RefCategoryScores(recs, demo) ==
    LET keys     == RefKeys(recs)
        grand    == RefGrandTotal(recs)
        af       == RefAgeFactor(demo)
        positive == RefSentimentRatio(recs, {"POSITIVE"})
        negative == RefSentimentRatio(recs, {"NEGATIVE"})
        neutral  == RefSentimentRatio(recs, RefOtherLabels(recs))
        joy      == RefEmotionRatio(recs, "joy", keys, grand)
        love     == RefEmotionRatio(recs, "love", keys, grand)
        sadness  == RefEmotionRatio(recs, "sadness", keys, grand)
        anger    == RefEmotionRatio(recs, "anger", keys, grand)
        fear     == RefEmotionRatio(recs, "fear", keys, grand)
        disgust  == RefEmotionRatio(recs, "disgust", keys, grand)
    IN  [self_awareness |->
             RefScore(RSub(RSub(RAdd(joy, love), sadness), anger), Zero),
         emotional_resilience |->
             RefScore(RSub(RSub(positive, negative), RMul(Rat(5, 10), fear)),
                      RMul(FromInt(5), af)),
         conflict_resolution |->
             RefScore(RSub(RSub(positive, anger), disgust), Zero),
         cultural_awareness |->
             RefScore(RSub(RAdd(neutral, love), disgust), Zero),
         empathy |->
             RefScore(RSub(RAdd(love, RMul(Rat(7, 10), sadness)), disgust), Zero),
         stress_management |->
             RefScore(RSub(RSub(positive, fear), anger), RMul(FromInt(3), af))]

RefMean(c) ==
    RDiv(SumOver(c, Categories), FromInt(Cardinality(Categories)))

\* C4: calculate_eq_scores equals the reference heuristic: each category is
\* the clamp to [0,100] of its formula with the age adjustment added before
\* the clamp, and the overall score is the mean of the six clamped scores.
C4_EqualsReference ==
    pc = "done" =>
        LET ref == RefCategoryScores(analyses, demographics)
        IN  /\ ~scores.raised
            /\ scores.category_scores = ref
            /\ scores.overall_score = RefMean(ref)

\* C4 witness: a call in which the age-adjusted resilience exceeds 100 and
\* the returned score is exactly 100.
C4_Witness ==
    /\ pc = "done"
    /\ RLess(Hundred, locals.emotional_resilience)
    /\ scores.category_scores.emotional_resilience = Hundred

\* The case of C6: at least one record, every record with an empty emotion
\* mapping and the sentiment label NEUTRAL.
AllNeutralNoEmotion(recs) ==
    /\ Len(recs) > 0
    /\ \A i \in 1..Len(recs) :
          /\ DOMAIN recs[i].emotion_scores = {}
          /\ recs[i].sentiment_label = "NEUTRAL"

EmotionRatiosAllZero(f) ==
    /\ DOMAIN f.emotion_ratios = {}
    /\ \A r \in {f.joy_ratio, f.sadness_ratio, f.anger_ratio, f.fear_ratio,
                 f.disgust_ratio, f.love_ratio} : r = Zero

\* The mean sentiment score of the records.
MeanSentimentScore(recs) ==
    RDiv(SumOver([i \in 1..Len(recs) |-> recs[i].sentiment_score], 1..Len(recs)),
         FromInt(Len(recs)))

\* C6 as stated: with no emotions and neutral sentiment everywhere, the
\* four categories self_awareness, conflict_resolution, cultural_awareness
\* and empathy are exactly 50, emotional_resilience is 50 + 5*age_factor,
\* stress_management is 50 + 3*age_factor, and overall is their mean.
C6_Original ==
    (pc = "done" /\ AllNeutralNoEmotion(analyses)) =>
        LET c  == scores.category_scores
            af == RefAgeFactor(demographics)
        IN  /\ EmotionRatiosAllZero(locals)
            /\ c.self_awareness = FromInt(50)
            /\ c.conflict_resolution = FromInt(50)
            /\ c.cultural_awareness = FromInt(50)
            /\ c.empathy = FromInt(50)
            /\ c.emotional_resilience = RAdd(FromInt(50), RMul(FromInt(5), af))
            /\ c.stress_management = RAdd(FromInt(50), RMul(FromInt(3), af))
            /\ scores.overall_score = RefMean(c)

\* C6 amended: with no emotions and neutral sentiment everywhere, all
\* emotion-derived ratios are 0; self_awareness, conflict_resolution and
\* empathy are exactly 50; cultural_awareness is 50 + 50 * the mean
\* sentiment score of the records; emotional_resilience is
\* 50 + 5*age_factor, stress_management 50 + 3*age_factor, and overall is
\* the mean of the six.
C6_Amended ==
    (pc = "done" /\ AllNeutralNoEmotion(analyses)) =>
        LET c  == scores.category_scores
            af == RefAgeFactor(demographics)
        IN  /\ EmotionRatiosAllZero(locals)
            /\ c.self_awareness = FromInt(50)
            /\ c.conflict_resolution = FromInt(50)
            /\ c.cultural_awareness =
                   RAdd(FromInt(50), RMul(FromInt(50), MeanSentimentScore(analyses)))
            /\ c.empathy = FromInt(50)
            /\ c.emotional_resilience = RAdd(FromInt(50), RMul(FromInt(5), af))
            /\ c.stress_management = RAdd(FromInt(50), RMul(FromInt(3), af))
            /\ scores.overall_score = RefMean(c)

\* C6 witness: such a call with a sentiment score above 0, so that
\* cultural_awareness is above 50.
C6_Witness ==
    /\ pc = "done"
    /\ AllNeutralNoEmotion(analyses)
    /\ Len(analyses) = 2
    /\ RLess(Zero, MeanSentimentScore(analyses))
    /\ RLess(FromInt(50), scores.category_scores.cultural_awareness)

\* C7: each emotion ratio is the emotion's summed score over all records
\* divided by the grand sum over all emotions and records; when some emotion
\* key was observed the ratios are non-negative and sum to 1 (uniform over
\* the observed keys when the grand sum is 0); when none was observed the
\* mapping is empty and every specific-emotion lookup is 0; and no division
\* by zero happens.
C7_EmotionRatios ==
    pc = "done" =>
        LET er    == locals.emotion_ratios
            keys  == RefKeys(analyses)
            grand == RefGrandTotal(analyses)
        IN  /\ ~scores.raised
            /\ DOMAIN er = keys
            /\ \A e \in keys : IsNumber(er[e]) /\ RLeq(Zero, er[e])
            /\ RLess(Zero, grand) =>
                  \A e \in keys : er[e] = RDiv(RefEmotionTotal(analyses, e), grand)
            /\ (keys # {} /\ grand = Zero) =>
                  \A e \in keys : er[e] = RDiv(One, FromInt(Cardinality(keys)))
            /\ keys # {} => SumValues(er) = One
            /\ keys = {} => EmotionRatiosAllZero(locals)

\* C7 witness: a call on two records whose emotion keys all score 0, so the
\* uniform fallback is taken.
C7_Witness ==
    /\ pc = "done"
    /\ Len(analyses) = 2
    /\ RefKeys(analyses) # {}
    /\ RefGrandTotal(analyses) = Zero
    /\ locals.emotion_ratios["joy"] = Half

----------------------------------------------------------------------------
(* eq_model.py: generate_scenario, generate_questions, analyze_responses.  *)
(* A profession is a sequence of characters, as a response text is.        *)

\* The lower case of one character.
LowerChar(c) ==
    CASE c = "A" -> "a"
      [] c = "B" -> "b"
      [] c = "C" -> "c"
      [] c = "D" -> "d"
      [] c = "E" -> "e"
      [] c = "F" -> "f"
      [] c = "G" -> "g"
      [] c = "H" -> "h"
      [] c = "I" -> "i"
      [] c = "J" -> "j"
      [] c = "K" -> "k"
      [] c = "L" -> "l"
      [] c = "M" -> "m"
      [] c = "N" -> "n"
      [] c = "O" -> "o"
      [] c = "P" -> "p"
      [] c = "Q" -> "q"
      [] c = "R" -> "r"
      [] c = "S" -> "s"
      [] c = "T" -> "t"
      [] c = "U" -> "u"
      [] c = "V" -> "v"
      [] c = "W" -> "w"
      [] c = "X" -> "x"
      [] c = "Y" -> "y"
      [] c = "Z" -> "z"
      [] OTHER -> c

\* str.lower()
str_lower(text) == [i \in 1..Len(text) |-> LowerChar(text[i])]

\* sub in text
Contains(text, sub) ==
    \E i \in 0..(Len(text) - Len(sub)) : SubSeq(text, i + 1, i + Len(sub)) = sub

\* Lines 71-77
TeacherScenario == "You are in the middle of teaching an important lesson when a student ..."

\* Lines 81-87
HealthcareScenario == "You are working in a busy hospital ward during a night shift. ..."

\* Lines 91-97
ManagementScenario == "You are leading a team project with a tight deadline. ..."

\* Lines 101-107
GenericScenario == "You have just presented your work to a group of colleagues and stakeholders. ..."

\* generate_scenario with the management keywords tried before the teaching
\* and the healthcare ones.
generate_scenario_management_first(age, gender, profession) ==
    LET profession_lower == str_lower(profession)
    IN  IF \/ Contains(profession_lower, <<"m", "a", "n", "a", "g", "e", "r">>)
           \/ Contains(profession_lower, <<"l", "e", "a", "d">>)
           \/ Contains(profession_lower, <<"d", "i", "r", "e", "c", "t", "o", "r">>)
        THEN ManagementScenario
        ELSE IF \/ Contains(profession_lower, <<"t", "e", "a", "c", "h", "e", "r">>)
                \/ Contains(profession_lower, <<"l", "e", "c", "t", "u", "r", "e", "r">>)
                \/ Contains(profession_lower, <<"e", "d", "u", "c", "a", "t", "o", "r">>)
        THEN TeacherScenario
        ELSE IF \/ Contains(profession_lower, <<"n", "u", "r", "s", "e">>)
                \/ Contains(profession_lower, <<"d", "o", "c", "t", "o", "r">>)
                \/ Contains(profession_lower, <<"p", "h", "y", "s", "i", "c", "i", "a", "n">>)
        THEN HealthcareScenario
        ELSE GenericScenario

\* Lines 55-107
generate_scenario(age, gender, profession) ==
    LET profession_lower == str_lower(profession)
    IN  IF \/ Contains(profession_lower, <<"t", "e", "a", "c", "h", "e", "r">>)
           \/ Contains(profession_lower, <<"l", "e", "c", "t", "u", "r", "e", "r">>)
           \/ Contains(profession_lower, <<"e", "d", "u", "c", "a", "t", "o", "r">>)
        THEN TeacherScenario
        ELSE IF \/ Contains(profession_lower, <<"n", "u", "r", "s", "e">>)
                \/ Contains(profession_lower, <<"d", "o", "c", "t", "o", "r">>)
                \/ Contains(profession_lower, <<"p", "h", "y", "s", "i", "c", "i", "a", "n">>)
        THEN HealthcareScenario
        ELSE IF \/ Contains(profession_lower, <<"m", "a", "n", "a", "g", "e", "r">>)
                \/ Contains(profession_lower, <<"l", "e", "a", "d">>)
                \/ Contains(profession_lower, <<"d", "i", "r", "e", "c", "t", "o", "r">>)
        THEN ManagementScenario
        ELSE GenericScenario

\* Lines 109-127: the same five questions for every scenario.
generate_questions(scenario) ==
    << "What emotions would you feel in this situation, and why? ...",
       "How would you manage your emotions before responding to the situation? ...",
       "How would you resolve this conflict or address this challenge? ...",
       "How would you cope with the stress and pressure of this situation? ...",
       "What would you learn from this experience, and how might it affect your future behavior in similar situations?" >>

\* Lines 270-274 from the response at index i on.  run[i] is what the two
\* pipelines do when called on the i-th response.  An exception of
\* analyze_single_response is not caught and ends the loop.
RECURSIVE analyze_from(_, _, _)
analyze_from(batch, run, i) ==
    IF i > Len(batch) THEN [raised |-> FALSE, analyses |-> << >>]
    ELSE LET a == analyze_single_response(run[i].sentiment, run[i].emotion)
             rest == analyze_from(batch, run, i + 1)
         IN  IF a.raised \/ rest.raised
             THEN [raised |-> TRUE, analyses |-> << >>]
             ELSE [raised |-> FALSE, analyses |-> <<a.record>> \o rest.analyses]

\* Lines 260-274
analyze_responses(batch, run) == analyze_from(batch, run, 1)

\* The calls of the pipelines that analyze_responses makes before it returns
\* or raises.
RECURSIVE calls_made(_, _, _)
calls_made(batch, run, i) ==
    IF i > Len(batch) THEN << >>
    ELSE IF analyze_single_response(run[i].sentiment, run[i].emotion).raised
         THEN <<run[i]>>
         ELSE <<run[i]>> \o calls_made(batch, run, i + 1)

----------------------------------------------------------------------------
(* forms.py and views.py.  A view is an operator from the session and the   *)
(* request to the session it leaves, its answer, the methods of eq_model it *)
(* called and the local variables of response_view.                         *)

\* request.session[key] = value for every key of updates
SessionSet(sess, updates) ==
    [key \in DOMAIN updates \cup DOMAIN sess |->
        IF key \in DOMAIN updates THEN updates[key] ELSE sess[key]]

\* forms.py, lines 10-15
GENDER_CHOICES == {"male", "female", "other", "prefer_not_say"}

\* forms.py, lines 17-45: form.is_valid() for integer ages.  A CharField
\* strips its value and wants it non-empty and of at most max_length.
is_valid(data) ==
    /\ data.age >= 10
    /\ data.age <= 100
    /\ data.gender \in GENDER_CHOICES
    /\ Len(strip(data.profession)) > 0
    /\ Len(strip(data.profession)) <= 100

\* form.cleaned_data of a valid form
cleaned_data(data) ==
    [age |-> data.age, gender |-> data.gender, profession |-> strip(data.profession)]

\* render(request, template, context)
Render(view, method, template, context) ==
    [view |-> view, method |-> method, status |-> "render", to |-> template,
     message |-> "", context |-> context]

\* messages.error(request, message) where there is one; redirect(route)
Redirect(view, method, route, message) ==
    [view |-> view, method |-> method, status |-> "redirect", to |-> route,
     message |-> message, context |-> EmptyDict]

\* An exception that leaves the view: the request fails with a server error.
Unhandled(view, method) ==
    [view |-> view, method |-> method, status |-> "exception", to |-> "",
     message |-> "", context |-> EmptyDict]

\* What a view leaves when it has run none of lines 70-143.
Served(sess, answer, called) ==
    [session |-> sess, http_response |-> answer, invoked |-> called,
     classifiers |-> << >>, responses |-> << >>,
     validation |-> [ok |-> TRUE, error |-> NoError],
     analyses |-> << >>, demographics |-> [k \in {} |-> 0], scores |-> NoScores,
     overall_score |-> Zero, eq_level |-> "Low EQ"]

\* views.py, lines 14-49
landing_view(sess, method, POST) ==
    IF method = "POST" /\ is_valid(POST)
    THEN LET age == cleaned_data(POST).age
             gender == cleaned_data(POST).gender
             profession == cleaned_data(POST).profession
             scenario == generate_scenario(age, gender, profession)
             questions == generate_questions(scenario)
         IN  Served(SessionSet(sess, [demographics |-> cleaned_data(POST),
                                      scenario |-> scenario,
                                      questions |-> questions]),
                    Redirect("landing", method, "assessment:respond", ""),
                    {"generate_scenario", "generate_questions"})
    ELSE Served(sess,
                Render("landing", method, "assessment/landing.html",
                       [form |-> IF method = "POST" THEN "invalid" ELSE "unbound"]),
                {})

\* Lines 96-101: starting from 0.0 for the three labels, the score of each
\* of the first k records added under its label where that is one of them.
RECURSIVE sentiment_counts_of(_, _)
sentiment_counts_of(recs, k) ==
    IF k = 0 THEN [label \in {"POSITIVE", "NEGATIVE", "NEUTRAL"} |-> Zero]
    ELSE LET sentiment_counts == sentiment_counts_of(recs, k - 1)
             label == recs[k].sentiment_label
             score == recs[k].sentiment_score
         IN  IF label \in DOMAIN sentiment_counts
             THEN [sentiment_counts EXCEPT ![label] = RAdd(@, score)]
             ELSE sentiment_counts

\* Lines 96-111
sentiment_percent_of(recs) ==
    LET sentiment_counts == sentiment_counts_of(recs, Len(recs))
        total_sentiment == SumValues(sentiment_counts)
    IN  IF RLess(Zero, total_sentiment)
        THEN [label \in DOMAIN sentiment_counts |->
                 RMul(RDiv(sentiment_counts[label], total_sentiment), Hundred)]
        ELSE [label \in DOMAIN sentiment_counts |-> Rat(333, 10)]

\* Lines 116-119 for one record: its emotion scores, from the j-th key of
\* the record on, added to the totals, a dict kept as its pairs in
\* insertion order.
RECURSIVE add_emotion_scores(_, _, _)
add_emotion_scores(totals, rec, j) ==
    IF j > Len(rec.emotion_keys) THEN totals
    ELSE LET emotion_label == rec.emotion_keys[j]
             so_far == DictGet(AsDict(totals), emotion_label, Zero)
         IN  add_emotion_scores(
                 SetItem(totals, emotion_label,
                         RAdd(so_far, rec.emotion_scores[emotion_label])),
                 rec, j + 1)

\* Lines 114-119 over the first k records.
RECURSIVE view_emotion_totals(_, _)
view_emotion_totals(recs, k) ==
    IF k = 0 THEN << >>
    ELSE add_emotion_scores(view_emotion_totals(recs, k - 1), recs[k], 1)

\* sum(dict.values()) of a dict kept as its pairs
RECURSIVE SumPairs(_)
SumPairs(pairs) ==
    IF pairs = << >> THEN Zero ELSE RAdd(Head(pairs)[2], SumPairs(Tail(pairs)))

\* Lines 132-136: sorted(items, key=value, reverse=True), a stable sort: the
\* pairs by descending value, equal values in their former order.
RECURSIVE sorted_descending(_)
sorted_descending(pairs) ==
    IF pairs = << >> THEN << >>
    ELSE LET n == Len(pairs)
             front == sorted_descending(SubSeq(pairs, 1, n - 1))
             k == Cardinality({i \in 1..(n - 1) : RLeq(pairs[n][2], front[i][2])})
         IN  SubSeq(front, 1, k) \o <<pairs[n]>> \o SubSeq(front, k + 1, n - 1)

\* Lines 114-136
emotion_percent_of(recs) ==
    LET totals == view_emotion_totals(recs, Len(recs))
        total_emotion == SumPairs(totals)
    IN  IF RLess(Zero, total_emotion)
        THEN sorted_descending(
                 [i \in 1..Len(totals) |->
                     <<totals[i][1], RMul(RDiv(totals[i][2], total_emotion), Hundred)>>])
        ELSE << >>

\* Lines 86-146: validation passed.
assess(sess, method, batch, demo, run) ==
    LET analysed == analyze_responses(batch, run)
        computed == calculate_eq_scores(analysed.analyses, demo)
        level == interpret_overall_eq(computed.overall_score)
        reached == [Served(sess, Unhandled("respond", method),
                           {"validate_responses", "analyze_responses"})
                        EXCEPT !.responses = batch,
                               !.demographics = demo,
                               !.classifiers = calls_made(batch, run, 1)]
    IN  IF analysed.raised THEN reached
        ELSE IF computed.raised
        THEN [reached EXCEPT !.analyses = analysed.analyses,
                             !.invoked = @ \cup {"calculate_eq_scores"}]
        ELSE [reached EXCEPT
                 !.session = SessionSet(sess,
                     [category_scores   |-> computed.category_scores,
                      overall_score     |-> computed.overall_score,
                      eq_level          |-> level,
                      sentiment_percent |-> sentiment_percent_of(analysed.analyses),
                      emotion_percent   |-> emotion_percent_of(analysed.analyses)]),
                 !.http_response =
                     Redirect("respond", method, "assessment:result", ""),
                 !.invoked = @ \cup {"calculate_eq_scores", "interpret_overall_eq"},
                 !.analyses = analysed.analyses,
                 !.scores = computed,
                 !.overall_score = computed.overall_score,
                 !.eq_level = level]

\* request.POST.get(f'answer_{i}', '')
Answer(POST, i) == IF i \in DOMAIN POST THEN POST[i] ELSE << >>

\* The POST branch with the test of line 79 left out: every batch is assessed.
respond_post_unchecked(sess, scenario, questions, demo, POST, run) ==
    LET batch == [i \in 1..Len(questions) |-> strip(Answer(POST, i - 1))]
    IN  assess(sess, "POST", batch, demo, run)

\* Lines 69-146: the POST branch of response_view.
respond_post(sess, scenario, questions, demo, POST, run) ==
    LET batch == [i \in 1..Len(questions) |-> strip(Answer(POST, i - 1))]
        checked == validate_responses(batch)
    IN  IF ~checked.ok
        THEN [Served(sess,
                     Render("respond", "POST", "assessment/scenario.html",
                            [scenario |-> scenario, questions |-> questions,
                             error_message |-> checked.error]),
                     {"validate_responses"})
                 EXCEPT !.responses = batch,
                        !.validation = checked,
                        !.demographics = demo]
        ELSE assess(sess, "POST", batch, demo, run)

\* Lines 52-152
response_view(sess, method, POST, run) ==
    IF "scenario" \notin DOMAIN sess \/ "questions" \notin DOMAIN sess
    THEN Served(sess,
                Redirect("respond", method, "assessment:landing",
                         "Please start the assessment from the beginning."),
                {})
    ELSE IF method = "POST"
    THEN respond_post(sess, sess["scenario"], sess["questions"],
                      DictGet(sess, "demographics", [k \in {} |-> 0]), POST, run)
    ELSE [Served(sess,
                 Render("respond", method, "assessment/scenario.html",
                        [scenario |-> sess["scenario"],
                         questions |-> sess["questions"]]),
                 {})
             EXCEPT !.demographics = DictGet(sess, "demographics", [k \in {} |-> 0])]

\* Lines 175-180
gender_display(gender) ==
    CASE gender = "male" -> "Male"
      [] gender = "female" -> "Female"
      [] gender = "other" -> "Other"
      [] gender = "prefer_not_say" -> "Prefer not to say"
      [] OTHER -> gender

\* result_view with the test of line 161 left out: it renders whatever the
\* session holds.
result_view_unguarded(sess, method) ==
    LET demo == DictGet(sess, "demographics", [k \in {} |-> 0])
    IN  Served(sess,
               Render("result", method, "assessment/result.html",
                      [demographics      |-> demo,
                       gender_display    |-> gender_display(DictGet(demo, "gender", "")),
                       scenario          |-> DictGet(sess, "scenario", ""),
                       category_scores   |-> DictGet(sess, "category_scores", EmptyDict),
                       overall_score     |-> DictGet(sess, "overall_score", Zero),
                       eq_level          |-> DictGet(sess, "eq_level", "Average EQ"),
                       sentiment_percent |-> DictGet(sess, "sentiment_percent", EmptyDict),
                       emotion_percent   |-> DictGet(sess, "emotion_percent", << >>)]),
               {})

\* Lines 155-193
result_view(sess, method) ==
    IF "overall_score" \notin DOMAIN sess
    THEN Served(sess,
                Redirect("result", method, "assessment:landing",
                         "Please complete the assessment to view results."),
                {})
    ELSE LET demo == DictGet(sess, "demographics", [k \in {} |-> 0])
         IN  Served(sess,
                    Render("result", method, "assessment/result.html",
                           [demographics      |-> demo,
                            gender_display    |-> gender_display(DictGet(demo, "gender", "")),
                            scenario          |-> DictGet(sess, "scenario", ""),
                            category_scores   |-> DictGet(sess, "category_scores", EmptyDict),
                            overall_score     |-> DictGet(sess, "overall_score", Zero),
                            eq_level          |-> DictGet(sess, "eq_level", "Average EQ"),
                            sentiment_percent |-> DictGet(sess, "sentiment_percent", EmptyDict),
                            emotion_percent   |-> DictGet(sess, "emotion_percent", << >>)]),
                    {})

----------------------------------------------------------------------------
(* One browser session: any sequence of requests to the three views.       *)

\* The demographics forms submitted: three that are valid, with professions
\* of the teaching, the healthcare and no keyword group, and three that are
\* not (an age under 10, no gender of the choices, a blank profession).
FormInputs ==
    { [age |-> 10, gender |-> "male", profession |-> <<"L", "e", "a", "d", " ", "T", "e", "a", "c", "h", "e", "r">>],
      [age |-> 100, gender |-> "female", profession |-> <<"n", "u", "r", "s", "e">>],
      [age |-> 100, gender |-> "prefer_not_say", profession |-> <<" ", "E", "n", "g", "i", "n", "e", "e", "r">>],
      [age |-> 9, gender |-> "male", profession |-> <<"n", "u", "r", "s", "e">>],
      [age |-> 10, gender |-> "", profession |-> <<"n", "u", "r", "s", "e">>],
      [age |-> 10, gender |-> "other", profession |-> <<" ">>] }

\* Answers: blank, three words, and ten words with white space around them.
BlankAnswer == <<" ", "\n">>

ShortAnswer == Sentence(3, <<" ">>)

LongAnswer == <<" ">> \o Sentence(min_words_per_response, <<" ">>) \o <<"\n">>

\* The POST bodies of a respond request, answer_{i} at index i: all answers
\* long; one answer blank, short or missing; two answers failing; none sent.
PostBodies ==
    { [i \in 0..4 |-> LongAnswer] }
    \cup { [i \in 0..4 |-> IF i = k THEN bad ELSE LongAnswer] :
             k \in {0, 2, 4}, bad \in {BlankAnswer, ShortAnswer} }
    \cup { [i \in (0..4) \ {k} |-> LongAnswer] : k \in {1, 4} }
    \cup { [i \in 0..4 |-> IF i = 1 THEN ShortAnswer
                           ELSE IF i = 3 THEN BlankAnswer ELSE LongAnswer],
           [i \in {} |-> LongAnswer] }

\* What the two pipelines do on one call.
Call(sent, emo) == [sentiment |-> sent, emotion |-> emo]

PositiveCall ==
    Call(Returns(PyList(<<ResultRecord(PyStr("POSITIVE"), PyNum(One))>>)),
         Returns(PyList(<< ResultRecord(PyStr("joy"), PyNum(Half)),
                           ResultRecord(PyStr("Fear"), PyNum(One)),
                           ResultRecord(PyStr("anger"), PyNum(One)) >>)))

NegativeCall ==
    Call(Returns(ResultRecord(PyStr("NEGATIVE"), PyNum(Half))),
         Returns(PyList(<< PyTuple(<<PyStr("Sadness"), PyNum(Half)>>) >>)))

\* Both pipelines return nothing of use: the record of defaults.
DefaultsCall == Call(Returns(PyNone), Returns(PyList(<< >>)))

\* The emotion pipeline raises; the sentiment pipeline raises.
EmotionFaultCall == Call(PositiveCall.sentiment, Raises)

SentimentFaultCall == Call(Raises, PositiveCall.emotion)

\* A sentiment output of no usable shape; an emotion output of none.
MalformedSentimentCall == Call(Returns(PyList(<<PyNone>>)), PositiveCall.emotion)

MalformedEmotionCall ==
    Call(NegativeCall.sentiment,
         Returns(PyList(<< ResultRecord(PyStr("joy"), PyNum(One)),
                           ResultRecord(PyStr("fear"), PyStr("high")) >>)))

\* The same behaviour at every call but the k-th.
AllBut(usual, k, other) == [i \in 1..5 |-> IF i = k THEN other ELSE usual]

\* The behaviours of the pipelines over the five calls of one request.
ClassifierRuns ==
    { [i \in 1..5 |-> c] : c \in {PositiveCall, NegativeCall, DefaultsCall, EmotionFaultCall} }
    \cup { AllBut(PositiveCall, 2, NegativeCall),
           AllBut(NegativeCall, 5, EmotionFaultCall),
           AllBut(PositiveCall, 4, MalformedEmotionCall),
           AllBut(PositiveCall, 1, SentimentFaultCall),
           AllBut(NegativeCall, 3, SentimentFaultCall),
           AllBut(DefaultsCall, 5, SentimentFaultCall),
           AllBut(PositiveCall, 2, MalformedSentimentCall) }

\* The requests to the landing page: a GET, or a POST of a form.
LandingRequests ==
    { [method |-> "GET", POST |-> [k \in {} |-> 0]] }
    \cup { [method |-> "POST", POST |-> form] : form \in FormInputs }

\* The requests to the respond page: a GET, or a POST of answers, during
\* which the pipelines behave in one of the ways of ClassifierRuns: every
\* body with the pipelines at their usual, and the body of five long answers
\* with every behaviour.
RespondRequests ==
    { [method |-> "GET", POST |-> [k \in {} |-> 0], run |-> << >>] }
    \cup { [method |-> "POST", POST |-> body, run |-> [i \in 1..5 |-> PositiveCall]] :
             body \in PostBodies }
    \cup { [method |-> "POST", POST |-> [i \in 0..4 |-> LongAnswer], run |-> run] :
             run \in ClassifierRuns }

\* result_view reads nothing of the request.
ResultRequests == { [method |-> "GET"], [method |-> "POST"] }

Init ==
    /\ pc = "serving"
    /\ IdleSession
    /\ IdleScores
    /\ IdleValidate
    /\ IdleInterpret
    /\ IdleAnalyze
    /\ IdleScenario

\* The request was a POST to the respond page whose batch passed validation
\* and that went as far as the session writes of views.py, lines 139-143.
StoresScores(served) ==
    /\ served.http_response.view = "respond"
    /\ served.http_response.method = "POST"
    /\ "validate_responses" \in served.invoked
    /\ served.validation.ok
    /\ "interpret_overall_eq" \in served.invoked

\* The state a view leaves.  The history keeps, of a request that stored
\* scores, the scores calculate_eq_scores returned, the demographics it was
\* given and the scenario the session held.
Leaves(served) ==
    /\ assessed' = IF StoresScores(served)
                   THEN [stored       |-> TRUE,
                         demographics |-> served.demographics,
                         scenario     |-> DictGet(session, "scenario", ""),
                         scores       |-> served.scores]
                   ELSE assessed
    /\ session' = served.session
    /\ http_response' = served.http_response
    /\ invoked' = served.invoked
    /\ classifiers' = served.classifiers
    /\ responses' = served.responses
    /\ validation' = served.validation
    /\ analyses' = served.analyses
    /\ demographics' = served.demographics
    /\ scores' = served.scores
    /\ overall_score' = served.overall_score
    /\ eq_level' = served.eq_level
    /\ UNCHANGED <<pc, locals, analyzeVars, scenarioVars>>

\* A request to the landing page.
LandingView ==
    /\ pc = "serving"
    /\ \E request \in LandingRequests :
           \E served \in {landing_view(session, request.method, request.POST)} :
               Leaves(served)

\* A request to the respond page.
ResponseView ==
    /\ pc = "serving"
    /\ \E request \in RespondRequests :
           \E served \in {response_view(session, request.method, request.POST,
                                        request.run)} :
               Leaves(served)

\* A request to the result page.
ResultView ==
    /\ pc = "serving"
    /\ \E request \in ResultRequests :
           \E served \in {result_view(session, request.method)} : Leaves(served)

Next == LandingView \/ ResponseView \/ ResultView

Spec == Init /\ [][Next]_vars

----------------------------------------------------------------------------
(* Properties of the session.                                              *)

ScoreKeys ==
    {"category_scores", "overall_score", "eq_level", "sentiment_percent",
     "emotion_percent"}

\* The last request was a POST to the respond page that collected answers.
AnswersPosted ==
    /\ http_response.view = "respond"
    /\ http_response.method = "POST"
    /\ Len(responses) > 0

\* C2: a respond POST whose batch fails validation is answered with the
\* scenario page and the error; it calls neither analyze_responses nor
\* calculate_eq_scores, produces no scores, and leaves every key of the
\* session (the five score keys, demographics, scenario, questions) as it
\* was before the request.
C2_RejectionHalts ==
    [][ (AnswersPosted' /\ \E i \in 1..Len(responses') : RefFails(responses'[i])) =>
            /\ session' = session
            /\ invoked' \cap {"analyze_responses", "calculate_eq_scores"} = {}
            /\ classifiers' = << >>
            /\ analyses' = << >>
            /\ scores' = NoScores
            /\ http_response'.status = "render"
            /\ http_response'.to = "assessment/scenario.html"
            /\ http_response'.context.error_message = validation'.error
            /\ validation'.ok = FALSE ]_vars

\* C2 witness: a batch was rejected in a session that holds the scores of an
\* earlier, accepted batch.
C2_Witness ==
    /\ AnswersPosted
    /\ \E i \in 1..Len(responses) : RefFails(responses[i])
    /\ ScoreKeys \subseteq DOMAIN session
    /\ "validate_responses" \in invoked

\* The pipelines, where called, raised or gave an output of a documented
\* shape.
FaultsOnly ==
    \A i \in 1..Len(classifiers) :
        /\ \/ classifiers[i].sentiment.raises
           \/ classifiers[i].sentiment.value \in
                  WellFormedSentiment \cup UnrecognisedSentiment \cup IncompleteSentiment
        /\ \/ classifiers[i].emotion.raises
           \/ classifiers[i].emotion.value \in WellFormedEmotion

\* C10 as stated: once a batch has passed validation, whichever calls of the
\* two classifiers raise, analyze_responses returns one record per response
\* and the request ends with category scores, an overall score and a level
\* stored; a validation rejection is the only failure.
C10_NoFaultAborts ==
    (AnswersPosted /\ validation.ok /\ ~(\E i \in 1..Len(responses) : RefFails(responses[i]))
        /\ FaultsOnly) =>
        /\ http_response.status = "redirect"
        /\ http_response.to = "assessment:result"
        /\ Len(analyses) = Len(responses)
        /\ ScoreKeys \subseteq DOMAIN session
        /\ session["category_scores"] = scores.category_scores
        /\ session["overall_score"] = scores.overall_score
        /\ session["eq_level"] = eq_level

\* The part of C10 the code keeps: the same with no call of the sentiment
\* classifier raising, whichever calls of the emotion classifier raise; the
\* record of a call whose emotion classifier raised has no emotions.
C10_HoldsForEmotionFaults ==
    (AnswersPosted /\ validation.ok /\ ~(\E i \in 1..Len(responses) : RefFails(responses[i]))
        /\ FaultsOnly /\ \A i \in 1..Len(classifiers) : ~classifiers[i].sentiment.raises) =>
        /\ http_response.status = "redirect"
        /\ http_response.to = "assessment:result"
        /\ Len(analyses) = Len(responses)
        /\ \A i \in 1..Len(analyses) :
              classifiers[i].emotion.raises => analyses[i].emotion_keys = << >>
        /\ ScoreKeys \subseteq DOMAIN session
        /\ session["category_scores"] = scores.category_scores
        /\ session["overall_score"] = scores.overall_score
        /\ session["eq_level"] = eq_level

\* An emotion classifier fault was absorbed: the request stored scores.
C10_EmotionFaultReached ==
    /\ AnswersPosted
    /\ \E i \in 1..Len(classifiers) : classifiers[i].emotion.raises
    /\ http_response.to = "assessment:result"

\* The last request was answered with the result page.
ResultsRendered ==
    /\ http_response.view = "result"
    /\ http_response.status = "render"
    /\ http_response.to = "assessment/result.html"

\* The last request was sent back to the landing page and called nothing of
\* the model.
SentToLanding ==
    /\ http_response.status = "redirect"
    /\ http_response.to = "assessment:landing"
    /\ invoked = {}
    /\ classifiers = << >>
    /\ analyses = << >>
    /\ scores = NoScores

\* C14: over any sequence of requests to the three views in one session, a
\* result request is answered with scores only if an earlier respond POST of
\* the session passed validation and stored them, and the scores shown are
\* those; a respond request in a session without scenario or questions, and
\* a result request in a session without overall_score, are redirected to
\* the landing page, call nothing of validation, analysis or scoring and
\* leave the session as it was.
C14_ResultsOnlyAfterAssessment ==
    [][ /\ ResultsRendered' =>
              /\ assessed'.stored
              /\ "overall_score" \in DOMAIN session
              /\ http_response'.context.category_scores
                     = assessed'.scores.category_scores
              /\ http_response'.context.overall_score
                     = assessed'.scores.overall_score
              /\ http_response'.context.eq_level
                     = interpret_overall_eq(assessed'.scores.overall_score)
              /\ invoked' = {}
        /\ (http_response'.view = "respond"
               /\ ~({"scenario", "questions"} \subseteq DOMAIN session)) =>
              SentToLanding' /\ session' = session
        /\ (http_response'.view = "result"
               /\ "overall_score" \notin DOMAIN session) =>
              SentToLanding' /\ session' = session ]_vars

\* C14 witness: the result page was rendered in a session in which a
\* respond POST had stored scores.
C14_Witness ==
    /\ ResultsRendered
    /\ assessed.stored
    /\ http_response.context.overall_score = assessed.scores.overall_score

\* A request was sent back to the landing page for want of scenario or of
\* scores.
C14_RedirectReached ==
    /\ http_response.view \in {"respond", "result"}
    /\ SentToLanding
    /\ "overall_score" \notin DOMAIN session

\* C15: whenever the result page is rendered, the scores and the level it
\* shows were computed with the demographics, and for the scenario, that the
\* session holds and the page shows at that moment.
C15_ResultsMatchSession ==
    ResultsRendered =>
        /\ assessed.stored
        /\ http_response.context.category_scores = assessed.scores.category_scores
        /\ http_response.context.overall_score = assessed.scores.overall_score
        /\ http_response.context.demographics = assessed.demographics
        /\ http_response.context.scenario = assessed.scenario
        /\ DictGet(session, "demographics", [k \in {} |-> 0]) = assessed.demographics
        /\ DictGet(session, "scenario", "") = assessed.scenario

\* The part of C15 that holds: the scores and the level shown are those of
\* the last assessment that stored any.
C15_ShowsLastAssessment ==
    ResultsRendered =>
        /\ assessed.stored
        /\ http_response.context.category_scores = assessed.scores.category_scores
        /\ http_response.context.overall_score = assessed.scores.overall_score
        /\ http_response.context.eq_level
               = interpret_overall_eq(assessed.scores.overall_score)

----------------------------------------------------------------------------
(* generate_scenario on its own.                                           *)

\* Professions naming one keyword group, several, or none, in mixed case
\* and with the keyword inside a longer word.
Professions ==
    { <<"L", "e", "a", "d", " ", "T", "e", "a", "c", "h", "e", "r">>,
      <<"T", "E", "A", "C", "H", "E", "R">>,
      <<"S", "e", "n", "i", "o", "r", " ", "L", "e", "c", "t", "u", "r", "e", "r">>,
      <<"e", "d", "u", "c", "a", "t", "o", "r">>,
      <<"n", "u", "r", "s", "e">>,
      <<"D", "o", "c", "t", "o", "r">>,
      <<"H", "e", "a", "d", " ", "P", "h", "y", "s", "i", "c", "i", "a", "n">>,
      <<"N", "u", "r", "s", "e", " ", "M", "a", "n", "a", "g", "e", "r">>,
      <<"M", "a", "n", "a", "g", "e", "r">>,
      <<"t", "e", "a", "m", " ", "l", "e", "a", "d">>,
      <<"m", "i", "s", "l", "e", "a", "d", "i", "n", "g">>,
      <<"D", "i", "r", "e", "c", "t", "o", "r", " ", "o", "f", " ", "N", "u", "r", "s", "i", "n", "g">>,
      <<"E", "n", "g", "i", "n", "e", "e", "r">>,
      <<"t", "e", "a", "c", "h">>,
      <<"L", "e", "a", " ", "d", "e", "r">> }

\* The ends of the range the form accepts, and an age in between.
ScenarioAges == {10, 45, 100}

ScenarioInputs ==
    { [age |-> a, gender |-> g, profession |-> p] :
        a \in ScenarioAges, g \in GENDER_CHOICES, p \in Professions }

InitScenario ==
    /\ pc = "input"
    /\ demographics \in ScenarioInputs
    /\ analyses = << >>
    /\ scores = NoScores
    /\ locals = NoLocals
    /\ scenario_text = ""
    /\ IdleValidate
    /\ IdleInterpret
    /\ IdleAnalyze
    /\ IdleSession

\* One call of generate_scenario on the drawn demographics.
GenerateScenario ==
    /\ pc = "input"
    /\ pc' = "done"
    /\ scenario_text' =
           generate_scenario(demographics.age, demographics.gender,
                             demographics.profession)
    /\ UNCHANGED <<sessionVars, scoresVars, validateVars, interpretVars, analyzeVars>>

NextScenario == GenerateScenario

SpecScenario == InitScenario /\ [][NextScenario]_vars

\* A capital letter and its small letter.
CasePairs ==
    { <<"A", "a">>, <<"B", "b">>, <<"C", "c">>, <<"D", "d">>, <<"E", "e">>, <<"F", "f">>,
      <<"G", "g">>, <<"H", "h">>, <<"I", "i">>, <<"J", "j">>, <<"K", "k">>, <<"L", "l">>,
      <<"M", "m">>, <<"N", "n">>, <<"O", "o">>, <<"P", "p">>, <<"Q", "q">>, <<"R", "r">>,
      <<"S", "s">>, <<"T", "t">>, <<"U", "u">>, <<"V", "v">>, <<"W", "w">>, <<"X", "x">>,
      <<"Y", "y">>, <<"Z", "z">> }

\* The same letter, whatever the case.
RefSameLetter(c, d) == c = d \/ <<c, d>> \in CasePairs \/ <<d, c>> \in CasePairs

\* The keyword occurs in the text, case ignored.
RefOccurs(keyword, text) ==
    \E start \in 1..Len(text) :
        /\ start + Len(keyword) - 1 <= Len(text)
        /\ \A j \in 1..Len(keyword) : RefSameLetter(text[start + j - 1], keyword[j])

RefTeaching == { <<"t", "e", "a", "c", "h", "e", "r">>, <<"l", "e", "c", "t", "u", "r", "e", "r">>, <<"e", "d", "u", "c", "a", "t", "o", "r">> }

RefHealthcare == { <<"n", "u", "r", "s", "e">>, <<"d", "o", "c", "t", "o", "r">>, <<"p", "h", "y", "s", "i", "c", "i", "a", "n">> }

RefManagement == { <<"m", "a", "n", "a", "g", "e", "r">>, <<"l", "e", "a", "d">>, <<"d", "i", "r", "e", "c", "t", "o", "r">> }

RefNames(group, text) == \E keyword \in group : RefOccurs(keyword, text)

\* C11: generate_scenario returns one of four fixed, distinct texts, the
\* one of the first keyword group, in the order teaching, healthcare,
\* management, that has a keyword occurring in the lower-cased profession,
\* and the generic text when none has; whatever the age and the gender.
C11_ScenarioByPriority ==
    pc = "done" =>
        LET profession == demographics.profession
        IN  /\ Cardinality({TeacherScenario, HealthcareScenario,
                            ManagementScenario, GenericScenario}) = 4
            /\ scenario_text =
                   IF RefNames(RefTeaching, profession) THEN TeacherScenario
                   ELSE IF RefNames(RefHealthcare, profession) THEN HealthcareScenario
                   ELSE IF RefNames(RefManagement, profession) THEN ManagementScenario
                   ELSE GenericScenario
            /\ \A a \in ScenarioAges, g \in GENDER_CHOICES :
                   generate_scenario(a, g, profession) = scenario_text

\* C11 witness: "Lead Teacher" names the management and the teaching group
\* and got the teaching text.
C11_Witness ==
    /\ pc = "done"
    /\ demographics.profession = <<"L", "e", "a", "d", " ", "T", "e", "a", "c", "h", "e", "r">>
    /\ RefNames(RefManagement, demographics.profession)
    /\ scenario_text = TeacherScenario

----------------------------------------------------------------------------
(* The sentiment ratios of calculate_eq_scores.                            *)

\* The sum of the sentiment scores of the records picked.
RECURSIVE RefScoreSum(_, _)
RefScoreSum(recs, picked) ==
    IF picked = {} THEN Zero
    ELSE LET i == CHOOSE x \in picked : TRUE
         IN  RAdd(recs[i].sentiment_score, RefScoreSum(recs, picked \ {i}))

\* The records bearing one of the labels.
RefBearing(recs, labels) == { i \in 1..Len(recs) : recs[i].sentiment_label \in labels }

UnitInterval(x) == RLeq(Zero, x) /\ RLeq(x, One)

\* C12: each of the three sentiment ratios is the sum of sentiment_score
\* over the records bearing the label, every label but POSITIVE and
\* NEGATIVE counting as neutral, divided by the number N of all records;
\* with N > 0 and scores in [0, 1] each ratio is in [0, 1] and the three sum
\* to at most 1; with N = 0 each ratio is 0.33.
C12_SentimentRatios ==
    pc = "done" =>
        LET N == Len(analyses)
            positive == RefBearing(analyses, {"POSITIVE"})
            negative == RefBearing(analyses, {"NEGATIVE"})
            neutral  == (1..N) \ (positive \cup negative)
        IN  IF N = 0
            THEN /\ locals.positive_ratio = Rat(33, 100)
                 /\ locals.negative_ratio = Rat(33, 100)
                 /\ locals.neutral_ratio = Rat(33, 100)
            ELSE /\ locals.positive_ratio =
                        RDiv(RefScoreSum(analyses, positive), FromInt(N))
                 /\ locals.negative_ratio =
                        RDiv(RefScoreSum(analyses, negative), FromInt(N))
                 /\ locals.neutral_ratio =
                        RDiv(RefScoreSum(analyses, neutral), FromInt(N))
                 /\ (\A i \in 1..N : UnitInterval(analyses[i].sentiment_score)) =>
                        /\ UnitInterval(locals.positive_ratio)
                        /\ UnitInterval(locals.negative_ratio)
                        /\ UnitInterval(locals.neutral_ratio)
                        /\ RLeq(RAdd(RAdd(locals.positive_ratio, locals.negative_ratio),
                                     locals.neutral_ratio), One)

\* C12 witness: two records, one POSITIVE with score 1 and one of a label
\* that is none of the three; the positive ratio is 1/2, not 1, and the
\* other record counts as neutral.
C12_Witness ==
    /\ pc = "done"
    /\ Len(analyses) = 2
    /\ analyses[1].sentiment_label = "POSITIVE"
    /\ analyses[1].sentiment_score = One
    /\ analyses[2].sentiment_label = "MIXED"
    /\ locals.positive_ratio = Half
    /\ locals.neutral_ratio = Half

----------------------------------------------------------------------------
(* calculate_eq_scores in floating point.  A float here has MantissaBits   *)
(* significant bits where a double has 53; every operation gives the       *)
(* representable value nearest to the exact result, ties to even.  The     *)
(* values met are far from overflow and underflow, which are left out.     *)

\* The significant bits of a float.
MantissaBits == 5

RECURSIVE Pow2(_)
Pow2(k) == IF k = 0 THEN 1 ELSE 2 * Pow2(k - 1)

\* F(v), with v evaluated once: a local variable holding a value.
With(v, F(_)) == CHOOSE r \in { F(x) : x \in {v} } : TRUE

\* n / d > 0 written as (n1 / d1) * 2^e with 2^(bits-1) <= n1 / d1 < 2^bits:
\* the triple <<n1, d1, e>>.
RECURSIVE Normalised(_, _, _, _)
Normalised(n, d, e, bits) ==
    IF n \div d >= Pow2(bits) THEN Normalised(n, 2 * d, e + 1, bits)
    ELSE IF n \div d < Pow2(bits - 1) THEN Normalised(2 * n, d, e - 1, bits)
    ELSE <<n, d, e>>

\* The integer nearest to n / d, the even one of two equally near.
NearestEven(n, d) ==
    LET f == n \div d
        r == n % d
    IN  IF 2 * r > d \/ (2 * r = d /\ f % 2 = 1) THEN f + 1 ELSE f

\* The float nearest to q.
Float(bits, q) ==
    With(q, LAMBDA v :
        IF v[2] = 0 \/ v[1] = 0 THEN v
        ELSE With(Normalised(Abs(v[1]), v[2], 0, bits), LAMBDA t :
                 With(IF v[1] < 0 THEN -NearestEven(t[1], t[2])
                      ELSE NearestEven(t[1], t[2]), LAMBDA f :
                     IF t[3] >= 0 THEN Rat(f * Pow2(t[3]), 1)
                     ELSE Rat(f, Pow2(-t[3])))))

\* p + q, p - q, p * q and p / q of two floats (an int operand is converted
\* first).
FAdd(bits, p, q) ==
    With(Float(bits, p), LAMBDA a :
        With(Float(bits, q), LAMBDA b : Float(bits, RAdd(a, b))))

FSub(bits, p, q) ==
    With(Float(bits, p), LAMBDA a :
        With(Float(bits, q), LAMBDA b : Float(bits, RSub(a, b))))

FMul(bits, p, q) ==
    With(Float(bits, p), LAMBDA a :
        With(Float(bits, q), LAMBDA b : Float(bits, RMul(a, b))))

FDiv(bits, p, q) ==
    With(Float(bits, p), LAMBDA a :
        With(Float(bits, q), LAMBDA b : Float(bits, RDiv(a, b))))

\* The loop of lines 300-312 over the first k records, its += in floating
\* point.
RECURSIVE sentiment_totals_rounded(_, _, _)
sentiment_totals_rounded(bits, recs, k) ==
    IF k = 0
    THEN [positive |-> Zero, negative |-> Zero, neutral |-> Zero, count |-> 0]
    ELSE With(sentiment_totals_rounded(bits, recs, k - 1), LAMBDA t :
             IF recs[k].sentiment_label = "POSITIVE"
             THEN [t EXCEPT !.positive = FAdd(bits, @, recs[k].sentiment_score),
                            !.count = @ + 1]
             ELSE IF recs[k].sentiment_label = "NEGATIVE"
             THEN [t EXCEPT !.negative = FAdd(bits, @, recs[k].sentiment_score),
                            !.count = @ + 1]
             ELSE [t EXCEPT !.neutral = FAdd(bits, @, recs[k].sentiment_score),
                            !.count = @ + 1])

\* Lines 320-326 in floating point.
sentiment_ratios_rounded(bits, t) ==
    IF t.count > 0
    THEN [positive |-> FDiv(bits, t.positive, FromInt(t.count)),
          negative |-> FDiv(bits, t.negative, FromInt(t.count)),
          neutral  |-> FDiv(bits, t.neutral, FromInt(t.count))]
    ELSE [positive |-> Float(bits, DefaultSentimentRatio),
          negative |-> Float(bits, DefaultSentimentRatio),
          neutral  |-> Float(bits, DefaultSentimentRatio)]

\* The loop of lines 314-318 over the first k records: the dict
\* emotion_totals as its mapping, totals, and its keys in insertion order.
RECURSIVE emotion_totals_rounded(_, _, _)
emotion_totals_rounded(bits, recs, k) ==
    IF k = 0 THEN [totals |-> EmptyDict, keys |-> << >>]
    ELSE With(emotion_totals_rounded(bits, recs, k - 1), LAMBDA t :
             [totals |-> [e \in DOMAIN t.totals \cup DOMAIN recs[k].emotion_scores |->
                             IF e \in DOMAIN recs[k].emotion_scores
                             THEN FAdd(bits, DictGet(t.totals, e, Zero),
                                       recs[k].emotion_scores[e])
                             ELSE t.totals[e]],
              keys |-> t.keys \o SelectSeq(recs[k].emotion_keys,
                                           LAMBDA e : e \notin DOMAIN t.totals)])

\* sum(emotion_totals.values()) of line 330 over the first k keys, added one
\* after the other.
RECURSIVE sum_values_rounded(_, _, _)
sum_values_rounded(bits, t, k) ==
    IF k = 0 THEN Zero
    ELSE FAdd(bits, sum_values_rounded(bits, t, k - 1), t.totals[t.keys[k]])

\* Lines 329-337 in floating point.
emotion_ratios_rounded(bits, t) ==
    With(sum_values_rounded(bits, t, Len(t.keys)), LAMBDA total_emotion_score :
        IF RLess(Zero, total_emotion_score)
        THEN [e \in DOMAIN t.totals |->
                 FDiv(bits, t.totals[e], total_emotion_score)]
        ELSE [e \in DOMAIN t.totals |->
                 FDiv(bits, FromInt(1), FromInt(Len(t.keys)))])

\* 50 + 50 * x in floating point.
BaseRounded(bits, x) == FAdd(bits, FromInt(50), FMul(bits, FromInt(50), x))

\* Lines 371-372 in floating point.
age_factor_rounded(bits, demo) ==
    PyMin(FromInt(1),
          FDiv(bits,
               FromInt(IF "age" \in DOMAIN demo THEN demo["age"] ELSE DefaultAge),
               FromInt(AgeScale)))

\* Lines 340-385 in floating point: the clamped category scores from the
\* sentiment ratios sr, the emotion ratios er and the age factor af.
category_scores_rounded(bits, sr, er, af) ==
    [self_awareness |->
         Clamp(BaseRounded(bits,
             FSub(bits, FSub(bits, FAdd(bits, DictGet(er, "joy", Zero),
                                        DictGet(er, "love", Zero)),
                             DictGet(er, "sadness", Zero)),
                  DictGet(er, "anger", Zero)))),
     emotional_resilience |->
         Clamp(FAdd(bits,
                    BaseRounded(bits,
                        FSub(bits, FSub(bits, sr.positive, sr.negative),
                             FMul(bits, DictGet(er, "fear", Zero), Rat(1, 2)))),
                    FMul(bits, af, FromInt(5)))),
     conflict_resolution |->
         Clamp(BaseRounded(bits,
             FSub(bits, FSub(bits, sr.positive, DictGet(er, "anger", Zero)),
                  DictGet(er, "disgust", Zero)))),
     cultural_awareness |->
         Clamp(BaseRounded(bits,
             FSub(bits, FAdd(bits, sr.neutral, DictGet(er, "love", Zero)),
                  DictGet(er, "disgust", Zero)))),
     empathy |->
         Clamp(BaseRounded(bits,
             FSub(bits, FAdd(bits, DictGet(er, "love", Zero),
                             FMul(bits, DictGet(er, "sadness", Zero), Rat(7, 10))),
                  DictGet(er, "disgust", Zero)))),
     stress_management |->
         Clamp(FAdd(bits,
                    BaseRounded(bits,
                        FSub(bits, FSub(bits, sr.positive, DictGet(er, "fear", Zero)),
                             DictGet(er, "anger", Zero))),
                    FMul(bits, af, FromInt(3))))]

\* np.mean of the six category scores (line 388) in floating point.
MeanOfSixRounded(bits, c) ==
    FDiv(bits,
         FAdd(bits, FAdd(bits, FAdd(bits, FAdd(bits,
              FAdd(bits, c.self_awareness, c.emotional_resilience),
              c.conflict_resolution), c.cultural_awareness),
              c.empathy), c.stress_management),
         FromInt(6))

\* Lines 291-390 in floating point.  No division by zero is met: the count
\* and the number of keys divide only where they are positive.
calculate_eq_scores_rounded(bits, recs, demo) ==
    With(sentiment_totals_rounded(bits, recs, Len(recs)), LAMBDA st :
    With(sentiment_ratios_rounded(bits, st), LAMBDA sr :
    With(emotion_totals_rounded(bits, recs, Len(recs)), LAMBDA et :
    With(emotion_ratios_rounded(bits, et), LAMBDA er :
    With(age_factor_rounded(bits, demo), LAMBDA af :
    With(category_scores_rounded(bits, sr, er, af), LAMBDA c :
        [raised          |-> FALSE,
         category_scores |-> c,
         overall_score   |-> MeanOfSixRounded(bits, c)]))))))

\* The most records a list given to calculate_eq_scores_rounded holds.
MaxRoundedRecords == 3

\* Feature records whose scores are floats: 1, 1/2 and 2^-MantissaBits.  No
\* list of them gives emotion_totals more than two keys, and the sum of two
\* floats does not depend on how sum() adds them.
RoundedRecords ==
    { FeatureRecord(label, score, pairs) :
        label \in {"POSITIVE", "NEGATIVE"},
        score \in {One, Rat(1, Pow2(MantissaBits))},
        pairs \in { << >>,
                    << <<"joy", One>> >>,
                    << <<"joy", Rat(1, Pow2(MantissaBits))>>, <<"fear", Half>> >> } }

RoundedInputs == UNION { [1..n -> RoundedRecords] : n \in 0..MaxRoundedRecords }

InitRounded ==
    /\ pc = "input"
    /\ analyses \in RoundedInputs
    /\ demographics \in { [k \in {"age"} |-> DefaultAge], [k \in {} |-> 0] }
    /\ scores = NoScores
    /\ locals = NoLocals
    /\ IdleValidate
    /\ IdleInterpret
    /\ IdleAnalyze
    /\ IdleSession
    /\ IdleScenario

\* One call of calculate_eq_scores, in floating point, on the drawn input.
CalculateRounded ==
    /\ pc = "input"
    /\ pc' = "done"
    /\ scores' = calculate_eq_scores_rounded(MantissaBits, analyses, demographics)
    /\ UNCHANGED <<sessionVars, scenarioVars, analyses, demographics, locals,
                   validateVars, interpretVars, analyzeVars>>

NextRounded == CalculateRounded

SpecRounded == InitRounded /\ [][NextRounded]_vars

\* The lists holding the records of recs in every order.
RefPermutations(recs) ==
    { [i \in 1..Len(recs) |-> recs[f[i]]] :
        f \in { g \in [1..Len(recs) -> 1..Len(recs)] :
                  \A i, j \in 1..Len(recs) : g[i] = g[j] => i = j } }

\* C13: calculate_eq_scores is a function of the multiset of feature records
\* and the age: once it has returned, a second call on the same records and
\* demographics, and a call on the same records in any other order, give the
\* same category scores and the same overall score.
C13_PureOfMultiset ==
    pc = "done" =>
        \A other \in RefPermutations(analyses) :
            calculate_eq_scores_rounded(MantissaBits, other, demographics) = scores

\* C13, the part that holds: a second call on the same list and demographics
\* gives the scores of the first, and the call leaves its arguments as they
\* were.
C13_SameInputSameScores ==
    [][CalculateRounded =>
          /\ calculate_eq_scores_rounded(MantissaBits, analyses', demographics')
                 = scores'
          /\ analyses' = analyses
          /\ demographics' = demographics]_vars

\* C13 in exact arithmetic: there the order of the records does not matter.
C13_ExactOrderInsensitive ==
    pc = "done" =>
        \A other \in RefPermutations(analyses) :
            calculate_eq_scores(other, demographics)
                = calculate_eq_scores(analyses, demographics)

\* Three positive records, one of them scored 1 and last in the list, have
\* been scored.
C13_OrderReached ==
    /\ pc = "done"
    /\ Len(analyses) = 3
    /\ \A i \in 1..3 : analyses[i].sentiment_label = "POSITIVE"
    /\ analyses[3].sentiment_score = One
    /\ analyses[1].sentiment_score # One

============================================================================
